---- MODULE Spec2Model ----
(***************************************************************************)
(* Model of the markdown -> Word-document converter of the LVMH            *)
(* competitor-analysis application: the per-line loop of                   *)
(* generateWordDocument (the "line classifier"), with createTable and      *)
(* createParagraphFromLine.                                                *)
(*                                                                         *)
(* A string is a sequence of one-character strings, so that the string     *)
(* methods the code calls (split, trim, startsWith, endsWith, includes,    *)
(* substring, match) are computed character by character.                  *)
(***************************************************************************)
EXTENDS Integers, Sequences, FiniteSets, TLC

\* Longest free input, in lines.
MaxLines == 3
\* Most data rows of a generated well-formed table input.
MaxRows == 3

----------------------------------------------------------------------------
(* String methods of JavaScript, on sequences of characters.               *)

\* The characters String.prototype.trim and the regex class \s remove that
\* can occur in the inputs of this model.
IsWhite(c) == c \in {" ", "\t"}

IsDigit(c) == c \in {"0", "1", "2", "3", "4", "5", "6", "7", "8", "9"}

StartsWith(s, p) ==
  /\ Len(p) <= Len(s)
  /\ SubSeq(s, 1, Len(p)) = p

EndsWith(s, p) ==
  /\ Len(p) <= Len(s)
  /\ SubSeq(s, Len(s) - Len(p) + 1, Len(s)) = p

Includes(s, p) ==
  \E k \in 1..(Len(s) - Len(p) + 1) : SubSeq(s, k, k + Len(p) - 1) = p

\* s.substring(k): the characters from 0-based index k on.
Substring(s, k) == SubSeq(s, k + 1, Len(s))

RECURSIVE TrimStart(_)
TrimStart(s) ==
  IF s # <<>> /\ IsWhite(Head(s)) THEN TrimStart(Tail(s)) ELSE s

RECURSIVE TrimEnd(_)
TrimEnd(s) ==
  IF s # <<>> /\ IsWhite(s[Len(s)])
    THEN TrimEnd(SubSeq(s, 1, Len(s) - 1))
    ELSE s

Trim(s) == TrimEnd(TrimStart(s))

\* s.split(sep) for a one-character separator: the pieces between the
\* occurrences of sep, empty pieces kept, so always at least one piece.
Split(s, sep) ==
  LET at == {k \in 1..Len(s) : s[k] = sep}
      n == Cardinality(at)
      \* The place of the j-th separator; 0 before the first piece and
      \* Len(s) + 1 after the last.
      Place(j) ==
        IF j = 0 THEN 0
        ELSE IF j = n + 1 THEN Len(s) + 1
        ELSE CHOOSE k \in at : Cardinality({q \in at : q <= k}) = j
  IN  [j \in 1..(n + 1) |-> SubSeq(s, Place(j - 1) + 1, Place(j) - 1)]

\* segs.join(sep), sep a string.
RECURSIVE Join(_, _)
Join(segs, sep) ==
  IF segs = <<>> THEN <<>>
  ELSE IF Len(segs) = 1 THEN segs[1]
  ELSE segs[1] \o sep \o Join(Tail(segs), sep)

----------------------------------------------------------------------------
(* The document blocks the loop pushes onto children.                      *)

Heading(level, text) == [kind |-> "Heading", level |-> level, text |-> text]

ListItem(ordinal, indent, text) ==
  [kind |-> "ListItem", ordinal |-> ordinal, indent |-> indent, text |-> text]

Spacer == [kind |-> "Spacer"]

\* The three paragraphs pushed before the loop: title, timestamp, image count.
Preamble ==
  << [kind |-> "Title"], [kind |-> "Meta", what |-> "timestamp"],
     [kind |-> "Meta", what |-> "imageCount"] >>

TextRun(text, bold, underline) ==
  [text |-> text, bold |-> bold, underline |-> underline]

Min(a, b) == IF a <= b THEN a ELSE b
Max(a, b) == IF a <= b THEN b ELSE a

\* s.substring(a, b): both ends clamped to 0..length and swapped when a > b.
SubstringTo(s, a, b) ==
  LET ca == Max(0, Min(a, Len(s)))
      cb == Max(0, Min(b, Len(s)))
  IN  SubSeq(s, Min(ca, cb) + 1, Max(ca, cb))

Bold == <<"*", "*">>
Under == <<"_", "_">>

\* The least index j >= from at which marker occurs in s, or 0.
FindMarker(s, marker, from) ==
  LET hits == {j \in from..(Len(s) - 1) : SubSeq(s, j, j + 1) = marker}
  IN  IF hits = {} THEN 0 ELSE CHOOSE j \in hits : \A h \in hits : j <= h

\* The last index of the match of \*\*.*?\*\*|__.*?__ that starts at k, or 0.
MatchEnd(s, k) ==
  LET m == IF k + 1 <= Len(s) THEN SubSeq(s, k, k + 1) ELSE <<>>
      close == IF m \in {Bold, Under} THEN FindMarker(s, m, k + 2) ELSE 0
  IN  IF close = 0 THEN 0 ELSE close + 1

\* line.split(/(\*\*.*?\*\*|__.*?__)/g) from index from on: the text before
\* each match, the match itself (the capture group), and the text after the
\* last match; empty pieces are kept.
RECURSIVE RegexSplit(_, _)
RegexSplit(s, from) ==
  LET starts == {k \in from..Len(s) : MatchEnd(s, k) # 0}
  IN  IF starts = {} THEN <<SubSeq(s, from, Len(s))>>
      ELSE LET k == CHOOSE x \in starts : \A y \in starts : x <= y
               e == MatchEnd(s, k)
           IN  <<SubSeq(s, from, k - 1), SubSeq(s, k, e)>>
                 \o RegexSplit(s, e + 1)

\* PartToRun with the '__' branch giving underline without bold.
PartToRunUnderlineOnly(part) ==
  IF StartsWith(part, Bold) /\ EndsWith(part, Bold)
    THEN TextRun(SubstringTo(part, 2, Len(part) - 2), TRUE, FALSE)
  ELSE IF StartsWith(part, Under) /\ EndsWith(part, Under)
    THEN TextRun(SubstringTo(part, 2, Len(part) - 2), FALSE, TRUE)
  ELSE TextRun(part, FALSE, FALSE)

PartToRun(part) ==
  IF StartsWith(part, Bold) /\ EndsWith(part, Bold)
    THEN TextRun(SubstringTo(part, 2, Len(part) - 2), TRUE, FALSE)
  ELSE IF StartsWith(part, Under) /\ EndsWith(part, Under)
    THEN TextRun(SubstringTo(part, 2, Len(part) - 2), TRUE, TRUE)
  ELSE TextRun(part, FALSE, FALSE)

\* createParagraphFromLine: the paragraph of a free-text line, one run per
\* piece of the split when the line holds a marker, one plain run otherwise.
createParagraphFromLine(line) ==
  IF Includes(line, Bold) \/ Includes(line, Under)
    THEN LET parts == RegexSplit(line, 1)
         IN  [kind |-> "Paragraph",
              runs |-> [k \in 1..Len(parts) |-> PartToRun(parts[k])]]
    ELSE [kind |-> "Paragraph", runs |-> <<TextRun(line, FALSE, FALSE)>>]

\* The earlier revision of createParagraphFromLine scans the line once:
\* each '**' at k (with a character after k) ends the current text, which
\* is pushed as a run unless it is empty, and flips isBold; every other
\* character is added to the current text. '__' is not looked for.
RECURSIVE ToggleScan(_, _, _, _, _)
ToggleScan(line, k, currentText, isBold, parts) ==
  LET pushed == IF currentText # <<>>
                  THEN Append(parts, TextRun(currentText, isBold, FALSE))
                  ELSE parts
  IN  IF k > Len(line) THEN pushed
      ELSE IF k < Len(line) /\ SubSeq(line, k, k + 1) = Bold
        THEN ToggleScan(line, k + 2, <<>>, ~isBold, pushed)
        ELSE ToggleScan(line, k + 1, Append(currentText, line[k]), isBold,
                        parts)

\* createParagraphFromLineToggle with the bold flag of every run cleared.
createParagraphFromLineToggleNeverBold(line) ==
  IF Includes(line, Bold) \/ Includes(line, Under)
    THEN LET parts == ToggleScan(line, 1, <<>>, FALSE, <<>>)
         IN  [kind |-> "Paragraph",
              runs |-> [k \in 1..Len(parts) |->
                          TextRun(parts[k].text, FALSE, FALSE)]]
    ELSE [kind |-> "Paragraph", runs |-> <<TextRun(line, FALSE, FALSE)>>]

createParagraphFromLineToggle(line) ==
  IF Includes(line, Bold) \/ Includes(line, Under)
    THEN [kind |-> "Paragraph",
          runs |-> ToggleScan(line, 1, <<>>, FALSE, <<>>)]
    ELSE [kind |-> "Paragraph", runs |-> <<TextRun(line, FALSE, FALSE)>>]

\* createTable: a header row (bold, shaded D0E0F5) and one row per data row,
\* shaded by the parity of its 0-based index.
HeaderCell(text) == [text |-> text, bold |-> TRUE, fill |-> "D0E0F5"]

\* DataCell with one shade for every data row.
DataCellOneShade(text, rowIndex) ==
  [text |-> text, bold |-> FALSE, fill |-> "FFFFFF"]

DataCell(text, rowIndex) ==
  [text |-> text, bold |-> FALSE,
   fill |-> IF rowIndex % 2 = 0 THEN "FFFFFF" ELSE "F5F5F5"]


\* createTable with every data row cut to the number of headers.
createTableTruncates(headers, rows) ==
  [kind |-> "Table",
   header |-> [k \in 1..Len(headers) |-> HeaderCell(headers[k])],
   rows |-> [r \in 1..Len(rows) |->
              [k \in 1..Min(Len(rows[r]), Len(headers)) |->
                 DataCell(rows[r][k], r - 1)]]]

createTable(headers, rows) ==
  [kind |-> "Table",
   header |-> [k \in 1..Len(headers) |-> HeaderCell(headers[k])],
   rows |-> [r \in 1..Len(rows) |->
              [k \in 1..Len(rows[r]) |-> DataCell(rows[r][k], r - 1)]]]

----------------------------------------------------------------------------
(* The per-line loop of generateWordDocument.                              *)

VARIABLES
  analysis,      \* analysisData.analysis, the text to convert
  lines,         \* analysis.split('\n')
  i,             \* the loop index, 1-based: the next line to classify
  inTable,       \* let inTable
  tableHeaders,  \* let tableHeaders
  tableRows,     \* let tableRows
  children,      \* the blocks pushed so far
  pc,            \* "loop" while lines remain or the final flush is due
  span,          \* one line and the runs each revision of
                 \* createParagraphFromLine returned for it
  sessions,      \* the locals of each of several invocations of
                 \* generateWordDocument that run side by side
  doc,           \* the locals of generateDocument and processContent
  progressStore, \* const progressStore of the ocr-progress route
  jobs,          \* the locals of each invocation of processMultipleImages
  poll,          \* the response the ocr-progress GET handler is returning
  upload,        \* the locals of uploadImages
  fs,            \* the files of the uploads directory, per session
  download,      \* the request the download handler works on
  ui             \* the state of the ImageUploader component

\* The locals of the one invocation of generateWordDocument.
loopVars ==
  <<analysis, lines, i, inTable, tableHeaders, tableRows, children, pc>>

\* The variables of the document converters, of the progress store with
\* processMultipleImages, of uploadImages with the download route, and of
\* the component.
converterVars == <<loopVars, span, sessions, doc>>
progressVars == <<progressStore, jobs, poll>>
uploadVars == <<upload, fs, download>>
uiVars == <<ui>>
laterVars == <<progressVars, uploadVars, uiVars>>

vars == <<converterVars, laterVars>>

\* The variables the per-line loop of generateWordDocument does not touch.
offLoop == <<span, sessions, doc, laterVars>>

\* The parse state one iteration reads and writes.
ParseState(t, h, r, c) ==
  [inTable |-> t, tableHeaders |-> h, tableRows |-> r, children |-> c]

Push(st, block) == [st EXCEPT !.children = Append(@, block)]

NonBlank(cell) == Trim(cell) # <<>>

\* line.split('|').filter(cell => cell.trim() !== '').map(cell => cell.trim())
ParseCells(line) ==
  LET kept == SelectSeq(Split(line, "|"), NonBlank)
  IN  [k \in 1..Len(kept) |-> Trim(kept[k])]

Separator == <<"-", "-", "-">>



\* TableRowBranch without the test for the separator row.
TableRowBranchKeepsDashes(st, line) ==
  IF ~st.inTable
    THEN [st EXCEPT !.inTable = TRUE, !.tableHeaders = ParseCells(line)]
    ELSE [st EXCEPT !.tableRows = Append(@, ParseCells(line))]

\* TableRowBranch with a data row put in front of the pending rows.
TableRowBranchPrepends(st, line) ==
  IF ~st.inTable
    THEN [st EXCEPT !.inTable = TRUE, !.tableHeaders = ParseCells(line)]
  ELSE IF Includes(line, Separator)
    THEN st
  ELSE [st EXCEPT !.tableRows = <<ParseCells(line)>> \o @]

\* The branch for a line that starts and ends with '|'.
TableRowBranch(st, line) ==
  IF ~st.inTable
    THEN [st EXCEPT !.inTable = TRUE, !.tableHeaders = ParseCells(line)]
  ELSE IF Includes(line, Separator)
    THEN st
  ELSE [st EXCEPT !.tableRows = Append(@, ParseCells(line))]


\* FlushTable without the test that headers and rows are non-empty.
FlushTableUnguarded(st) ==
  [Push(st, createTable(st.tableHeaders, st.tableRows))
     EXCEPT !.tableHeaders = <<>>, !.tableRows = <<>>]

\* The table pushed and the pending data reset, when both are non-empty.
FlushTable(st) ==
  IF Len(st.tableHeaders) > 0 /\ Len(st.tableRows) > 0
    THEN [Push(st, createTable(st.tableHeaders, st.tableRows))
            EXCEPT !.tableHeaders = <<>>, !.tableRows = <<>>]
    ELSE st

\* The branch "inTable && !line.startsWith('|')": the end of the table.
EndOfTableBranch(st, line) ==
  LET flushed == FlushTable([st EXCEPT !.inTable = FALSE])
  IN  IF line # <<>> THEN Push(flushed, createParagraphFromLine(line))
      ELSE flushed

\* line.match(/^(\d+)\.\s+(.*)$/): whether it matches, and match[2].
RECURSIVE SkipDigits(_)
SkipDigits(s) == IF s # <<>> /\ IsDigit(Head(s)) THEN SkipDigits(Tail(s)) ELSE s

NumberedMatch(line) ==
  LET afterDigits == SkipDigits(line)
      afterDot == IF afterDigits = <<>> THEN <<>> ELSE Tail(afterDigits)
  IN  IF /\ Len(afterDigits) < Len(line)
         /\ afterDigits # <<>> /\ Head(afterDigits) = "."
         /\ afterDot # <<>> /\ IsWhite(Head(afterDot))
        THEN [matched |-> TRUE, text |-> TrimStart(afterDot)]
        ELSE [matched |-> FALSE, text |-> <<>>]

NumberedBranch(st, line) ==
  LET match == NumberedMatch(line)
  IN  IF match.matched
        THEN Push(st, ListItem("numbered", 0, match.text))
        ELSE st

H1 == <<"#", " ">>
H2 == <<"#", "#", " ">>
H3 == <<"#", "#", "#", " ">>

IsHeadingLine(line) ==
  StartsWith(line, H1) \/ StartsWith(line, H2) \/ StartsWith(line, H3)


\* HeadingBranch with the text of a '### ' heading cut one character early.
HeadingBranchOffByOne(st, line) ==
  IF StartsWith(line, H1) THEN Push(st, Heading(1, Substring(line, 2)))
  ELSE IF StartsWith(line, H2) THEN Push(st, Heading(2, Substring(line, 3)))
  ELSE Push(st, Heading(3, Substring(line, 3)))

\* The first three branches: '# ', '## ' and '### ' lines.
HeadingBranch(st, line) ==
  IF StartsWith(line, H1) THEN Push(st, Heading(1, Substring(line, 2)))
  ELSE IF StartsWith(line, H2) THEN Push(st, Heading(2, Substring(line, 3)))
  ELSE Push(st, Heading(3, Substring(line, 4)))

\* The branch for '- ' lines.
BulletBranch(st, line) == Push(st, ListItem("bullet", 0, Substring(line, 2)))

Nested1 == <<" ", " ", "-", " ">>
Nested2 == <<" ", " ", " ", " ", "-", " ">>

\* The branch for '  - ' and '    - ' lines ("Nested bullet point").
NestedBulletBranch(st, line) ==
  IF StartsWith(line, Nested2)
    THEN Push(st, ListItem("bullet", 2, Substring(line, 6)))
    ELSE Push(st, ListItem("bullet", 1, Substring(line, 4)))

\* One iteration of the loop on the raw line lines[i].
LoopBody(st, raw) ==
  LET line == Trim(raw)
  IN  IF IsHeadingLine(line)
        THEN HeadingBranch(st, line)
      ELSE IF StartsWith(line, <<"|">>) /\ EndsWith(line, <<"|">>)
        THEN TableRowBranch(st, line)
      ELSE IF st.inTable /\ ~StartsWith(line, <<"|">>)
        THEN EndOfTableBranch(st, line)
      ELSE IF StartsWith(line, <<"-", " ">>)
        THEN BulletBranch(st, line)
      ELSE IF StartsWith(line, Nested1) \/ StartsWith(line, Nested2)
        THEN NestedBulletBranch(st, line)
      ELSE IF \/ StartsWith(line, <<"1", ".", " ">>)
              \/ StartsWith(line, <<"2", ".", " ">>)
              \/ StartsWith(line, <<"3", ".", " ">>)
        THEN NumberedBranch(st, line)
      ELSE IF line = <<>>
        THEN Push(st, Spacer)
      ELSE Push(st, createParagraphFromLine(line))


\* EndOfInput without the final table.
EndOfInputNoFlush(st) == st

\* After the loop: "If we're still in a table at the end, add it".
EndOfInput(st) ==
  IF st.inTable /\ Len(st.tableHeaders) > 0 /\ Len(st.tableRows) > 0
    THEN Push(st, createTable(st.tableHeaders, st.tableRows))
    ELSE st

Current == ParseState(inTable, tableHeaders, tableRows, children)

Store(st) ==
  /\ inTable' = st.inTable
  /\ tableHeaders' = st.tableHeaders
  /\ tableRows' = st.tableRows
  /\ children' = st.children

----------------------------------------------------------------------------
(* The inputs: analysis texts, as generateWordDocument receives them.      *)

\* '# R'
Heading1Line == <<"#", " ", "R">>
\* '## S|'
Heading2Line == <<"#", "#", " ", "S", "|">>
\* '### N '
Heading3Line == <<"#", "#", "#", " ", "N", " ">>
\* '| A | B |'
HeaderLine == <<"|", " ", "A", " ", "|", " ", "B", " ", "|">>
\* '| --- |'
SeparatorLine == <<"|", " ", "-", "-", "-", " ", "|">>
\* '| C |'
RowLine == <<"|", " ", "C", " ", "|">>
\* '|'
BarLine == <<"|">>
\* '- x'
BulletLine == <<"-", " ", "x">>
\* '  - x'
Bullet1Line == <<" ", " ", "-", " ", "x">>
\* '    - x'
Bullet2Line == <<" ", " ", " ", " ", "-", " ", "x">>
\* '1. x'
Numbered1Line == <<"1", ".", " ", "x">>
\* '4. x'
Numbered4Line == <<"4", ".", " ", "x">>
\* ''
BlankLine == <<>>
\* 'x'
TextLine == <<"x">>
\* '|x'
OpenBarLine == <<"|", "x">>

LineSet ==
  { Heading1Line, Heading2Line, Heading3Line, HeaderLine, SeparatorLine,
    RowLine, BarLine, BulletLine, Bullet1Line, Bullet2Line, Numbered1Line,
    Numbered4Line, BlankLine, TextLine, OpenBarLine }

\* Every sequence of at most MaxLines lines of LineSet.
FreeLineSeqs == UNION {[1..n -> LineSet] : n \in 0..MaxLines}

\* The end-to-end scenario of the specification, line by line.
Scenario ==
  << <<"#", " ", "R", "e", "p", "o", "r", "t">>,
     <<"|", " ", "B", "r", "a", "n", "d", " ", "|", " ", "T", "y",
       "p", "e", " ", "|">>,
     <<"|", " ", "-", "-", "-", " ", "|", " ", "-", "-", "-", " ",
       "|">>,
     <<"|", " ", "D", "i", "o", "r", " ", "|", " ", "C", "a", "s",
       "h", " ", "|">>,
     <<"|", " ", "C", "h", "a", "n", "e", "l", " ", "|", " ", "V",
       "o", "u", "c", "h", "e", "r", " ", "|">>,
     <<>>,
     <<"-", " ", "S", "t", "r", "o", "n", "g", " ", "p", "e", "r",
       "f", "o", "r", "m", "a", "n", "c", "e">> >>

\* The lines of s whose index is in keep, in order.
RECURSIVE Keep(_, _, _)
Keep(s, keep, k) ==
  IF k > Len(s) THEN <<>>
  ELSE (IF k \in keep THEN <<s[k]>> ELSE <<>>) \o Keep(s, keep, k + 1)

\* The scenario and every text made of some of its lines, in their order.
ScenarioLineSeqs ==
  {Keep(Scenario, keep, 1) : keep \in SUBSET (1..Len(Scenario))}

\* The line of a table row with the given cells: '| c1 | c2 |'.
RowLineOf(cells) ==
  <<"|", " ">> \o Join(cells, <<" ", "|", " ">>) \o <<" ", "|">>

\* The header rows and data rows of the generated well-formed tables, as cells.
TableHeaderCells == {<<<<"A">>, <<"B">>>>, <<<<"C">>>>}
TableDataCells ==
  { <<<<"P">>, <<"Q">>>>, <<<<"U">>, <<"V">>>>, <<<<"W">>>>,
    <<<<"X">>, <<"Y">>, <<"Z">>>> }

TableHeaderLines == {RowLineOf(c) : c \in TableHeaderCells}
TableDataLines == {RowLineOf(c) : c \in TableDataCells}

\* A header line, a separator line and 1..MaxRows data lines.
TableLineSeqs ==
  { <<h, SeparatorLine>> \o rows :
      h \in TableHeaderLines,
      rows \in UNION {[1..n -> TableDataLines] : n \in 1..MaxRows} }

\* '|a---b|': a table row whose cell text holds '---'
DashRowLine == <<"|", "a", "-", "-", "-", "b", "|">>
\* '  ': whitespace only
WhiteLine == <<" ", " ">>

\* The two lines above at the start of the input, after a header line and
\* after a header and a data line, alone or followed by one more line.
EdgeLineSeqs ==
  { before \o <<e>> \o after :
      before \in {<<>>, <<HeaderLine>>, <<HeaderLine, RowLine>>},
      e \in {DashRowLine, WhiteLine},
      after \in {<<>>, <<RowLine>>, <<TextLine>>} }

Inputs ==
  { Join(ls, <<"\n">>) :
      ls \in FreeLineSeqs \cup ScenarioLineSeqs \cup TableLineSeqs
               \cup EdgeLineSeqs }

\* No line has been handed to createParagraphFromLine on its own.
SpanIdle ==
  [line |-> <<>>, written |-> <<>>, regex |-> <<>>, toggle |-> <<>>,
   done |-> {}]

\* No invocations side by side, no call of generateDocument.
SessionsIdle == <<>>
DocIdle == [pc |-> "idle"]

\* No OCR batch, no upload or download, no component.
NoPoll == [status |-> 0]
ProgressIdle == progressStore = <<>> /\ jobs = <<>> /\ poll = NoPoll
UploadIdle == upload = "none" /\ fs = <<>> /\ download = "none"
UiIdle == ui = "none"
LaterIdle == ProgressIdle /\ UploadIdle /\ UiIdle

\* generateWordDocument is not running on its own: pc names what runs.
LoopIdle(running) ==
  /\ analysis = <<>>
  /\ lines = <<>>
  /\ i = 1
  /\ inTable = FALSE
  /\ tableHeaders = <<>>
  /\ tableRows = <<>>
  /\ children = <<>>
  /\ pc = running

\* None of the converters runs: pc names the component that does.
ConvertersIdle(running) ==
  /\ LoopIdle(running)
  /\ span = SpanIdle
  /\ sessions = SessionsIdle
  /\ doc = DocIdle

Init ==
  /\ analysis \in Inputs
  /\ lines = Split(analysis, "\n")
  /\ i = 1
  /\ inTable = FALSE
  /\ tableHeaders = <<>>
  /\ tableRows = <<>>
  /\ children = Preamble
  /\ pc = "loop"
  /\ span = SpanIdle
  /\ sessions = SessionsIdle
  /\ doc = DocIdle
  /\ LaterIdle


\* ProcessLine looking ahead: a header line also consumes a separator line
\* that follows it.
ProcessLineLooksAhead ==
  /\ pc = "loop"
  /\ i <= Len(lines)
  /\ Store(LoopBody(Current, lines[i]))
  /\ i' = IF /\ ~inTable /\ LoopBody(Current, lines[i]).inTable
             /\ i < Len(lines) /\ Includes(lines[i + 1], Separator)
            THEN i + 2 ELSE i + 1
  /\ UNCHANGED <<analysis, lines, pc>>
  /\ UNCHANGED offLoop

ProcessLine ==
  /\ pc = "loop"
  /\ i <= Len(lines)
  /\ Store(LoopBody(Current, lines[i]))
  /\ i' = i + 1
  /\ UNCHANGED <<analysis, lines, pc>>
  /\ UNCHANGED offLoop

Finish ==
  /\ pc = "loop"
  /\ i > Len(lines)
  /\ Store(EndOfInput(Current))
  /\ pc' = "done"
  /\ UNCHANGED <<analysis, lines, i>>
  /\ UNCHANGED offLoop

Next == ProcessLine \/ Finish

Spec == Init /\ [][Next]_vars

\* The blocks of the analysis body: children without the preamble.
Body == SubSeq(children, Len(Preamble) + 1, Len(children))

----------------------------------------------------------------------------
(* createParagraphFromLine on its own: one line is handed to the regex      *)
(* revision (part_005, lib/document-generator.ts) and to the toggle-scan    *)
(* revision (part_004), in either order.                                    *)

MaxSpanLen == 7
MaxSpans == 2

\* Every line of up to MaxSpanLen characters over a letter and the two
\* marker characters.
SpanAlphabet == {"a", "*", "_"}
FreeSpanLines ==
  UNION { [1..n -> SpanAlphabet] : n \in 0..MaxSpanLen }

\* Lines written from regions: plain text, then up to MaxSpans times a
\* '**...**' or '__...__' region followed by plain text.
Chars(str) ==
  CASE str = "" -> <<>>
    [] str = "a" -> <<"a">>
    [] str = "last" -> <<" ", "l", "a", "s", "t", " ">>
    [] str = "grew" ->
         <<"R", "e", "v", "e", "n", "u", "e", " ", "g", "r", "e", "w", " ">>
    [] str = "40%" -> <<"4", "0", "%">>
    [] str = "quarter" -> <<"q", "u", "a", "r", "t", "e", "r">>

Region(kind, text) == [kind |-> kind, text |-> text]
PlainRegions == { Region("plain", Chars(t)) : t \in {"", "grew", "last"} }
MarkedRegions ==
  { Region(k, Chars(t)) : k \in {"bold", "under"},
                          t \in {"", "40%", "quarter"} }

RegionLists ==
  UNION { { rs \in [1..(2 * n + 1) -> PlainRegions \cup MarkedRegions] :
              \A k \in 1..(2 * n + 1) :
                 (k % 2 = 1) <=> (rs[k] \in PlainRegions) }
          : n \in 0..MaxSpans }

MarkerOf(kind) ==
  CASE kind = "plain" -> <<>> [] kind = "bold" -> Bold [] kind = "under" -> Under

RECURSIVE LineOf(_)
LineOf(rs) ==
  IF rs = <<>> THEN <<>>
  ELSE MarkerOf(Head(rs).kind) \o Head(rs).text \o MarkerOf(Head(rs).kind)
         \o LineOf(Tail(rs))

\* 'Revenue grew **40%** last __quarter__'
RevenueRegions ==
  <<Region("plain", Chars("grew")), Region("bold", Chars("40%")),
    Region("plain", Chars("last")), Region("under", Chars("quarter")),
    Region("plain", <<>>)>>
RevenueLine == LineOf(RevenueRegions)

SpanInputs ==
  { [line |-> l, written |-> <<>>] : l \in FreeSpanLines }
    \cup { [line |-> LineOf(rs), written |-> rs] : rs \in RegionLists }

SpanInit ==
  /\ \E in \in SpanInputs :
       span = [line |-> in.line, written |-> in.written,
               regex |-> <<>>, toggle |-> <<>>, done |-> {}]
  /\ LoopIdle("spans")
  /\ sessions = SessionsIdle
  /\ doc = DocIdle
  /\ LaterIdle

CallRegexRevision ==
  /\ pc = "spans"
  /\ "part_005" \notin span.done
  /\ span' = [span EXCEPT !.regex = createParagraphFromLine(span.line).runs,
                          !.done = @ \cup {"part_005"}]
  /\ UNCHANGED <<loopVars, sessions, doc, laterVars>>

CallToggleRevision ==
  /\ pc = "spans"
  /\ "part_004" \notin span.done
  /\ span' = [span EXCEPT
                !.toggle = createParagraphFromLineToggle(span.line).runs,
                !.done = @ \cup {"part_004"}]
  /\ UNCHANGED <<loopVars, sessions, doc, laterVars>>

SpanNext == CallRegexRevision \/ CallToggleRevision

SpecSpans == SpanInit /\ [][SpanNext]_vars

----------------------------------------------------------------------------
(* Several invocations of generateWordDocument side by side, one per        *)
(* analysis session. inTable, tableHeaders, tableRows and children are      *)
(* declared inside the function, so each invocation has its own; the steps  *)
(* of the invocations are interleaved in any order.                         *)

MaxSessionLines == 2

SessionIds == {"s1", "s2"}
SessionLineSet == {HeaderLine, RowLine, TextLine, BlankLine}
SessionInputs ==
  { Join(ls, <<"\n">>) :
      ls \in UNION { [1..n -> SessionLineSet] : n \in 1..MaxSessionLines } }
    \cup {<<>>}

NewSession(input) ==
  [analysis |-> input, lines |-> Split(input, "\n"), i |-> 1,
   st |-> ParseState(FALSE, <<>>, <<>>, Preamble), pc |-> "loop"]

SessionsInit ==
  /\ sessions \in [SessionIds -> {NewSession(a) : a \in SessionInputs}]
  /\ LoopIdle("sessions")
  /\ span = SpanIdle
  /\ doc = DocIdle
  /\ LaterIdle

\* SessionLine with inTable kept in one place for all invocations.
SessionLineSharedFlag(s) ==
  LET r == sessions[s]
      shared == [r.st EXCEPT !.inTable = \E t \in SessionIds :
                                            sessions[t].st.inTable]
  IN  /\ pc = "sessions"
      /\ r.pc = "loop"
      /\ r.i <= Len(r.lines)
      /\ sessions' = [sessions EXCEPT
                        ![s] = [r EXCEPT !.st = LoopBody(shared, r.lines[r.i]),
                                         !.i = r.i + 1]]
      /\ UNCHANGED <<loopVars, span, doc, laterVars>>

\* One iteration of the loop of invocation s.
SessionLine(s) ==
  LET r == sessions[s]
  IN  /\ pc = "sessions"
      /\ r.pc = "loop"
      /\ r.i <= Len(r.lines)
      /\ sessions' = [sessions EXCEPT
                        ![s] = [r EXCEPT !.st = LoopBody(r.st, r.lines[r.i]),
                                         !.i = r.i + 1]]
      /\ UNCHANGED <<loopVars, span, doc, laterVars>>

\* The code after the loop of invocation s.
SessionFinish(s) ==
  LET r == sessions[s]
  IN  /\ pc = "sessions"
      /\ r.pc = "loop"
      /\ r.i > Len(r.lines)
      /\ sessions' = [sessions EXCEPT
                        ![s] = [r EXCEPT !.st = EndOfInput(r.st),
                                         !.pc = "done"]]
      /\ UNCHANGED <<loopVars, span, doc, laterVars>>

SessionsNext ==
  \E s \in SessionIds : SessionLine(s) \/ SessionFinish(s)

SpecSessions == SessionsInit /\ [][SessionsNext]_vars

----------------------------------------------------------------------------
(* Views of the state that the properties below are stated on.             *)

\* The loop is about to classify lines[i].
AtLine == pc = "loop" /\ i <= Len(lines)

\* The line the next iteration classifies, as the loop sees it.
CurLine == Trim(lines[i])

NumTables(blocks) ==
  Cardinality({k \in 1..Len(blocks) : blocks[k].kind = "Table"})

\* The blocks the step under way has pushed.
Pushed == SubSeq(children', Len(children) + 1, Len(children'))

\* The Table block of the pending table data.
PendingTable == createTable(tableHeaders, tableRows)

PendingNonEmpty == Len(tableHeaders) > 0 /\ Len(tableRows) > 0

\* The number of '#' a line starts with.
RECURSIVE Hashes(_)
Hashes(s) == IF s # <<>> /\ Head(s) = "#" THEN 1 + Hashes(Tail(s)) ELSE 0

\* A line of one to three '#', a space, and the heading's text.
IsHeadingText(s) ==
  Hashes(s) \in 1..3 /\ Len(s) > Hashes(s) /\ s[Hashes(s) + 1] = " "

\* The Heading block the rules 1-3 give for such a line.
HeadingOf(s) == Heading(Hashes(s), SubSeq(s, Hashes(s) + 2, Len(s)))

----------------------------------------------------------------------------
(* C1: the end-to-end scenario. On the input '# Report', '| Brand | Type |',*)
(* '| --- | --- |', '| Dior | Cash |', '| Chanel | Voucher |', '',          *)
(* '- Strong performance' the body is Heading(1, Report), the table,        *)
(* a Spacer for the blank line after the table, and the bullet item.        *)

ScenarioBlocks ==
  << Heading(1, <<"R", "e", "p", "o", "r", "t">>),
     createTable(<<<<"B", "r", "a", "n", "d">>, <<"T", "y", "p", "e">>>>,
                 << <<<<"D", "i", "o", "r">>, <<"C", "a", "s", "h">>>>,
                    <<<<"C", "h", "a", "n", "e", "l">>,
                      <<"V", "o", "u", "c", "h", "e", "r">>>> >>),
     Spacer,
     ListItem("bullet", 0,
              <<"S", "t", "r", "o", "n", "g", " ",
                "p", "e", "r", "f", "o", "r", "m", "a", "n", "c", "e">>) >>

\* C1: the scenario's body is the heading, the table, a Spacer, the bullet.
C1_ScenarioYieldsSpacer ==
  (pc = "done" /\ lines = Scenario) => Body = ScenarioBlocks

----------------------------------------------------------------------------
(* C2: a heading line that arrives while a table is open closes the table  *)
(* context at that line: the pending table, when its headers and rows are   *)
(* both non-empty, is pushed before the Heading block, and table context is *)
(* left, so that later table rows open a new table.                         *)

C2_HeadingClosesTable ==
  [][ (AtLine /\ inTable /\ IsHeadingText(CurLine)) =>
        /\ ~inTable'
        /\ Pushed = (IF PendingNonEmpty THEN <<PendingTable>> ELSE <<>>)
                      \o <<HeadingOf(CurLine)>>
    ]_vars

----------------------------------------------------------------------------
(* C3: after every end-of-table event the pending headers and the pending   *)
(* rows are both empty, whether or not a Table block was pushed, so that a  *)
(* dropped table leaves nothing behind for a later one.                     *)

C3_EndOfTableResets ==
  [][ (inTable /\ ~inTable') => (tableHeaders' = <<>> /\ tableRows' = <<>>)
    ]_vars

----------------------------------------------------------------------------
(* C4: a line that does not start with '|' and arrives in table context is  *)
(* classified, once the table is flushed, as it would be outside table      *)
(* context: '- x' a bullet item, '1. x' a numbered item, an empty line a    *)
(* Spacer, and otherwise a Paragraph.                                       *)

\* What the loop pushes for the line outside table context.
OutsideTable(raw) ==
  LoopBody(ParseState(FALSE, <<>>, <<>>, <<>>), raw).children

\* C4: in table context, a line that is neither a table row nor a heading
\* pushes the pending table, if any, and then what it pushes outside tables.
C4_ReclassifiedAfterTable ==
  [][ (AtLine /\ inTable /\ ~StartsWith(CurLine, <<"|">>)
         /\ ~IsHeadingText(CurLine)) =>
        Pushed = (IF PendingNonEmpty THEN <<PendingTable>> ELSE <<>>)
                   \o OutsideTable(lines[i])
    ]_vars

----------------------------------------------------------------------------
(* C5: table round trip. For an input that is a well-formed table (a header *)
(* line, a separator line, then n >= 1 data lines) the body is exactly one  *)
(* Table block: its headers are the header cells in order and its rows the  *)
(* data rows in source order, each with its cells in order.                 *)

WellFormedTableInput ==
  /\ Len(lines) >= 3
  /\ lines[1] \in TableHeaderLines
  /\ lines[2] = SeparatorLine
  /\ \A k \in 3..Len(lines) : lines[k] \in TableDataLines

\* The cells a generated table line was written from.
CellsOf(line) ==
  CHOOSE c \in TableHeaderCells \cup TableDataCells : RowLineOf(c) = line

\* C5: the body of a well-formed table input is the one Table block of its
\* header cells and its data rows, in source order.
C5_TableRoundTrip ==
  (pc = "done" /\ WellFormedTableInput) =>
    Body = << createTable(
                CellsOf(lines[1]),
                [k \in 1..(Len(lines) - 2) |-> CellsOf(lines[k + 2])]) >>

\* A table of 2 columns and 3 rows has been converted.
C5_Witness ==
  /\ pc = "done" /\ WellFormedTableInput
  /\ Len(lines) = 5 /\ Len(CellsOf(lines[1])) = 2
  /\ Len(Body) = 1 /\ Len(Body[1].header) = 2 /\ Len(Body[1].rows) = 3

----------------------------------------------------------------------------
(* C6: every Table block pushed has at least one header and at least one    *)
(* data row; a table context that ends, at a line or at the end of input,   *)
(* with no pending header or no pending data row pushes no Table block.     *)

\* The step under way ends the table context: at a line, or at end of input.
ContextEnds == inTable /\ (~inTable' \/ pc' = "done")

----------------------------------------------------------------------------
(* C7: a pending table with headers and rows is pushed exactly once, when   *)
(* its context ends: at the line that ends it or, when the input ends in    *)
(* table context, as the last block of the body. No other step pushes a     *)
(* Table block.                                                             *)

C7_PendingTablePushedOnce ==
  [][ LET emit == ContextEnds /\ PendingNonEmpty
      IN  /\ NumTables(children') =
               NumTables(children) + (IF emit THEN 1 ELSE 0)
          /\ emit => Pushed[1] = PendingTable
          /\ (emit /\ pc' = "done") => Pushed = <<PendingTable>>
    ]_vars

\* The input ended in table context and the final table is the last block.
C7_Witness ==
  /\ pc = "done" /\ inTable /\ PendingNonEmpty
  /\ children[Len(children)] = PendingTable

----------------------------------------------------------------------------
(* C8: outside table context, a line of two spaces and '- ' gives a bullet  *)
(* item of indent 1 and a line of four spaces and '- ' one of indent 2.     *)

C8_NestedBulletIndent ==
  [][ (AtLine /\ ~inTable
         /\ (StartsWith(lines[i], Nested1) \/ StartsWith(lines[i], Nested2))) =>
        Pushed = << IF StartsWith(lines[i], Nested2)
                      THEN ListItem("bullet", 2, Substring(lines[i], 6))
                      ELSE ListItem("bullet", 1, Substring(lines[i], 4)) >>
    ]_vars

----------------------------------------------------------------------------
(* C9: outside table context, every line that matches ^\d+\.\s+.* gives a   *)
(* numbered item of indent 0 whose text is the part after the number, the   *)
(* dot and the whitespace, whatever the number.                             *)

C9_AnyNumberIsNumbered ==
  [][ (AtLine /\ ~inTable /\ NumberedMatch(lines[i]).matched) =>
        Pushed = <<ListItem("numbered", 0, NumberedMatch(lines[i]).text)>>
    ]_vars

----------------------------------------------------------------------------
(* C10: heading priority. A line that starts with '# ', '## ' or '### '     *)
(* gives exactly one Heading block of level 1, 2 or 3 whose text is the     *)
(* rest of the line, in or out of table context and also when the line ends *)
(* with '|'; the pending headers and rows are left as they are.             *)

\* C10 as claimed: on the line as it stands in the input.
C10_HeadingOfRawLine ==
  [][ (AtLine /\ IsHeadingText(lines[i])) =>
        /\ Pushed = <<HeadingOf(lines[i])>>
        /\ UNCHANGED <<tableHeaders, tableRows>>
    ]_vars

\* C10 as amended: on the line with its leading and trailing whitespace
\* removed, which is the line the loop classifies.
C10_HeadingOfTrimmedLine ==
  [][ (AtLine /\ IsHeadingText(CurLine)) =>
        /\ Pushed = <<HeadingOf(CurLine)>>
        /\ UNCHANGED <<tableHeaders, tableRows>>
    ]_vars

\* The line '## S|' was classified in table context, after a data row.
C10_Witness ==
  /\ i > 1 /\ lines[i - 1] = Heading2Line
  /\ inTable /\ tableRows # <<>>
  /\ children[Len(children)] = Heading(2, <<"S", "|">>)

----------------------------------------------------------------------------
(* C11: in table context a line that starts and ends with '|' and holds     *)
(* '---' anywhere changes nothing: inTable, the pending headers and rows    *)
(* and the blocks stay as they are. Outside table context the same line     *)
(* opens a table and its cells become the pending headers.                  *)

IsRowLine(s) == StartsWith(s, <<"|">>) /\ EndsWith(s, <<"|">>)

C11_SeparatorRowIsNoOp ==
  [][ (AtLine /\ IsRowLine(CurLine) /\ Includes(CurLine, Separator)) =>
        IF inTable
          THEN UNCHANGED <<inTable, tableHeaders, tableRows, children>>
          ELSE /\ inTable'
               /\ tableHeaders' = ParseCells(CurLine)
               /\ UNCHANGED <<tableRows, children>>
    ]_vars

\* The data row '|a---b|' was read after a header line and left no trace.
C11_Witness ==
  /\ i = 3 /\ lines[1] = HeaderLine /\ lines[2] = DashRowLine
  /\ inTable /\ Len(tableHeaders) = 2 /\ tableRows = <<>>
  /\ children = Preamble

----------------------------------------------------------------------------
(* C12: ragged rows. A data row of k cells read in table context is stored  *)
(* as a row of exactly those k cells, whatever the number of headers, and   *)
(* the headers stay as they are; the Table block of a well-formed table     *)
(* input has, row by row, as many cells as the data line had.               *)

C12_RaggedRowsKept ==
  [][ /\ (AtLine /\ inTable /\ CurLine \in TableDataLines) =>
           /\ tableRows' = Append(tableRows, CellsOf(CurLine))
           /\ UNCHANGED <<tableHeaders, children>>
      /\ (pc' = "done" /\ WellFormedTableInput) =>
           /\ Len(Pushed) = 1
           /\ Len(Pushed[1].header) = Len(CellsOf(lines[1]))
           /\ Len(Pushed[1].rows) = Len(lines) - 2
           /\ \A r \in 1..(Len(lines) - 2) :
                 Len(Pushed[1].rows[r]) = Len(CellsOf(lines[r + 2]))
    ]_vars

\* A table of two headers was pushed with a row of one cell and a row of
\* three cells.
C12_Witness ==
  /\ pc = "done" /\ WellFormedTableInput /\ Len(Body) = 1
  /\ Len(Body[1].header) = 2
  /\ \E r \in 1..Len(Body[1].rows) : Len(Body[1].rows[r]) = 1
  /\ \E r \in 1..Len(Body[1].rows) : Len(Body[1].rows[r]) = 3

----------------------------------------------------------------------------
(* C13: total input coverage. Every line either pushes exactly one block    *)
(* that is no Table (a Heading, a ListItem, a Spacer or a Paragraph) or is  *)
(* folded into the table state as header, data row or separator, pushing    *)
(* nothing; a free-text line pushes exactly one Paragraph.                  *)

NonTables(blocks) == SelectSeq(blocks, LAMBDA b : b.kind # "Table")

C13_EveryLineCovered ==
  [][ AtLine =>
        IF IsRowLine(CurLine)
          THEN Pushed = <<>>
          ELSE /\ Len(NonTables(Pushed)) = 1
               /\ NonTables(Pushed)[1].kind
                    \in {"Heading", "ListItem", "Spacer", "Paragraph"}
    ]_vars

----------------------------------------------------------------------------
(* C14: one forward pass. The input and its lines never change; every       *)
(* iteration classifies lines[i] and moves to i + 1; the final flush comes  *)
(* when i is one past the last line, and nothing follows it. The loop is    *)
(* never stuck: while pc is "loop", i is at most one past the last line.    *)

C14_SingleForwardPass ==
  [][ /\ UNCHANGED <<analysis, lines>>
      /\ AtLine => (i' = i + 1 /\ pc' = "loop")
      /\ ~AtLine => (i = Len(lines) + 1 /\ i' = i /\ pc' = "done")
      /\ pc = "loop" /\ i' \in 1..(Len(lines) + 1)
    ]_vars

\* The empty string: one empty line, one step and the flush.
C14_Witness ==
  /\ pc = "done" /\ analysis = <<>> /\ lines = <<<<>>>> /\ i = 2
  /\ Body = <<Spacer>>

----------------------------------------------------------------------------
(* Views of the runs createParagraphFromLine returned.                      *)

RegexDone == pc = "spans" /\ "part_005" \in span.done
ToggleDone == pc = "spans" /\ "part_004" \in span.done
Written == span.written # <<>>

\* The runs the regions of a written line stand for, one per region.
ExpectedRuns(rs) ==
  [k \in 1..Len(rs) |->
     TextRun(rs[k].text, rs[k].kind # "plain", rs[k].kind = "under")]

DropEmpty(runs) == SelectSeq(runs, LAMBDA r : r.text # <<>>)

RECURSIVE Flatten(_)
Flatten(seqs) ==
  IF seqs = <<>> THEN <<>> ELSE Head(seqs) \o Flatten(Tail(seqs))

Texts(runs) == [k \in 1..Len(runs) |-> runs[k].text]

Stripped(line) ==
  LET parts == RegexSplit(line, 1)
  IN  Flatten([k \in 1..Len(parts) |->
                 IF k % 2 = 0 THEN SubSeq(parts[k], 3, Len(parts[k]) - 2)
                              ELSE parts[k]])

(* C16: the texts of the spans of the regex revision, put together in       *)
(* order, are the line without the markers of its matched pairs; every      *)
(* other character, unmatched '*' and '_' included, is kept.                *)
C16_ConcatIsStrippedLine ==
  RegexDone => Flatten(Texts(span.regex)) = Stripped(span.line)

(* C17: in the regex revision every piece of the line outside the matched   *)
(* pairs, unterminated markers included, is returned as a plain span (not   *)
(* bold, not underlined) with the piece as its text.                        *)
C17_UnmatchedIsPlain ==
  RegexDone =>
    LET parts == RegexSplit(span.line, 1)
    IN  /\ Len(span.regex) = Len(parts)
        /\ \A k \in 1..Len(parts) :
              (k % 2 = 1) => span.regex[k] = TextRun(parts[k], FALSE, FALSE)

\* The line without its '**', found left to right without overlap, and
\* their number.
RECURSIVE StripBold(_)
StripBold(s) ==
  IF s = <<>> THEN <<>>
  ELSE IF Len(s) >= 2 /\ SubSeq(s, 1, 2) = Bold
    THEN StripBold(SubSeq(s, 3, Len(s)))
    ELSE <<Head(s)>> \o StripBold(Tail(s))

RECURSIVE CountBold(_)
CountBold(s) ==
  IF s = <<>> THEN 0
  ELSE IF Len(s) >= 2 /\ SubSeq(s, 1, 2) = Bold
    THEN 1 + CountBold(SubSeq(s, 3, Len(s)))
    ELSE CountBold(Tail(s))

\* What the toggle-scan revision does with '**': a line with a single '**'
\* gives the text before it plain and the text after it bold, and the texts
\* of the runs put together are the line without its '**'.
ToggleDropsMarkers ==
  ToggleDone =>
    /\ Flatten(Texts(span.toggle)) = StripBold(span.line)
    /\ CountBold(span.line) = 1 =>
         LET j == FindMarker(span.line, Bold, 1)
         IN  span.toggle =
               DropEmpty(<<TextRun(SubSeq(span.line, 1, j - 1), FALSE, FALSE),
                           TextRun(SubSeq(span.line, j + 2, Len(span.line)),
                                   TRUE, FALSE)>>)

BothDone == RegexDone /\ ToggleDone
PairedBoldOnly ==
  CountBold(span.line) % 2 = 0 /\ ~Includes(span.line, Under)

(* C18, as stated: the toggle-scan revision drops every '**' and flips      *)
(* bold at each, loses no other character, and returns the same runs as     *)
(* the regex revision for a line whose '**' are paired and that has no      *)
(* '__'.                                                                    *)
C18_RevisionsSameRuns ==
  /\ ToggleDropsMarkers
  /\ (BothDone /\ PairedBoldOnly) => span.regex = span.toggle

(* C18, amended: as above, but the two revisions return the same runs only  *)
(* once the empty runs of the regex revision are left out.                  *)
C18_RevisionsSameNonEmptyRuns ==
  /\ ToggleDropsMarkers
  /\ (BothDone /\ PairedBoldOnly) =>
       DropEmpty(span.regex) = DropEmpty(span.toggle)

\* 'a**a': the toggle-scan revision drops the unterminated '**' and
\* returns the rest bold, the regex revision returns the line as it is.
C18_Witness ==
  /\ BothDone
  /\ span.line = <<"a", "*", "*", "a">>
  /\ span.toggle = <<TextRun(<<"a">>, FALSE, FALSE), TextRun(<<"a">>, TRUE, FALSE)>>
  /\ span.regex = <<TextRun(<<"a", "*", "*", "a">>, FALSE, FALSE)>>

----------------------------------------------------------------------------
(* generateDocument (lib/document-generator.ts): processContent reads the   *)
(* content line by line into the paragraphs of the recommendations section  *)
(* and the paragraphs and tables of the table section; generateDocument     *)
(* then puts the sections together.                                         *)

MaxDocLines == 4
BATCH_SIZE == 10

Recommendations ==
  <<"R", "e", "c", "o", "m", "m", "e", "n", "d", "a", "t", "i", "o", "n", "s">>
AnalysisColon == <<"A", "n", "a", "l", "y", "s", "i", "s", ":">>
Which == <<"W", "h", "i", "c", "h">>
What == <<"W", "h", "a", "t">>
How == <<"H", "o", "w">>

\* createParagraphFromLine of lib/document-generator.ts: a line that
\* matches /^(\d+)\.\s+(Which|What|How)/ is one bold run of the whole line;
\* any other line is split as in part_005.
createParagraphFromLineLib(line) ==
  LET m == NumberedMatch(line)
  IN  IF /\ m.matched
         /\ \/ StartsWith(m.text, Which) \/ StartsWith(m.text, What)
            \/ StartsWith(m.text, How)
        THEN [kind |-> "Paragraph", runs |-> <<TextRun(line, TRUE, FALSE)>>]
        ELSE createParagraphFromLine(line)

processParagraphBatch(paragraphs, targetArray) ==
  targetArray
    \o [k \in 1..Len(paragraphs) |-> createParagraphFromLineLib(paragraphs[k])]

\* The two calls of processParagraphBatch and the reset of both batches.
FlushBatches(d) ==
  [d EXCEPT
     !.recommendationsParagraphs =
        processParagraphBatch(d.recommendationsBatch, @),
     !.tableParagraphs = processParagraphBatch(d.tableBatch, @),
     !.recommendationsBatch = <<>>,
     !.tableBatch = <<>>]

\* A line that starts and ends with '|'.
ContentTableRow(d, line) ==
  IF ~d.inTable
    THEN [FlushBatches(d) EXCEPT !.inTable = TRUE, !.currentSection = "table",
                                 !.tableHeaderLine = line]
  ELSE IF Includes(line, Separator) THEN d
  ELSE IF Len(ParseCells(line)) > 0
    THEN [d EXCEPT !.tableRows = Append(@, ParseCells(line))]
    ELSE d

\* 'We've exited the table': the table is pushed and the table data are
\* reset only when there are headers and rows.
ExitTable(d) ==
  LET headers == ParseCells(d.tableHeaderLine)
  IN  IF Len(headers) > 0 /\ Len(d.tableRows) > 0
        THEN [d EXCEPT !.inTable = FALSE,
                       !.tableParagraphs =
                          Append(@, createTable(headers, d.tableRows)),
                       !.tableHeaders = <<>>, !.tableRows = <<>>,
                       !.tableHeaderLine = <<>>]
        ELSE [d EXCEPT !.inTable = FALSE, !.tableHeaders = headers]

\* RegularContent with lines read before any section kept as paragraphs of
\* the table section.
RegularContentKeepsAll(d, line) ==
  IF d.currentSection = "recommendations"
    THEN [d EXCEPT !.recommendationsBatch = Append(@, line)]
    ELSE [d EXCEPT !.tableBatch = Append(@, line)]

\* 'Process regular content based on current section'
RegularContent(d, line) ==
  IF d.currentSection = "recommendations"
    THEN LET batch == Append(d.recommendationsBatch, line)
         IN  IF Len(batch) >= BATCH_SIZE
               THEN [d EXCEPT !.recommendationsParagraphs =
                                 processParagraphBatch(batch, @),
                              !.recommendationsBatch = <<>>]
               ELSE [d EXCEPT !.recommendationsBatch = batch]
  ELSE IF d.currentSection = "table" /\ ~d.inTable
    THEN LET batch == Append(d.tableBatch, line)
         IN  IF Len(batch) >= BATCH_SIZE
               THEN [d EXCEPT !.tableParagraphs =
                                 processParagraphBatch(batch, @),
                              !.tableBatch = <<>>]
               ELSE [d EXCEPT !.tableBatch = batch]
  ELSE d

\* ContentLoopBody with the table test before the section-marker test.
ContentLoopBodyTableFirst(d, raw) ==
  LET line == Trim(raw)
  IN  IF line = <<>> THEN d
      ELSE IF StartsWith(line, <<"|">>) /\ EndsWith(line, <<"|">>)
        THEN ContentTableRow(d, line)
      ELSE IF Includes(line, Recommendations) \/ Includes(line, AnalysisColon)
        THEN [FlushBatches(d) EXCEPT !.currentSection = "recommendations"]
      ELSE RegularContent(IF d.inTable THEN ExitTable(d) ELSE d, line)

\* One iteration of the loop of processContent on the line raw.
ContentLoopBody(d, raw) ==
  LET line == Trim(raw)
  IN  IF line = <<>> THEN d
      ELSE IF Includes(line, Recommendations) \/ Includes(line, AnalysisColon)
        THEN [FlushBatches(d) EXCEPT !.currentSection = "recommendations"]
      ELSE IF StartsWith(line, <<"|">>) /\ EndsWith(line, <<"|">>)
        THEN ContentTableRow(d, line)
      ELSE RegularContent(IF d.inTable THEN ExitTable(d) ELSE d, line)

\* processContent after the loop: the remaining batches, the remaining
\* table.
ContentEnd(d) ==
  LET f == FlushBatches(d)
      headers == ParseCells(f.tableHeaderLine)
  IN  IF f.inTable /\ f.tableHeaderLine # <<>> /\ Len(f.tableRows) > 0
        THEN IF Len(headers) > 0
               THEN [f EXCEPT !.tableHeaders = headers,
                              !.tableParagraphs =
                                 Append(@, createTable(headers, f.tableRows))]
               ELSE [f EXCEPT !.tableHeaders = headers]
        ELSE f

SectionHeading(title) == [kind |-> "SectionHeading", title |-> title]

\* What awaiting the image appendix gives: no session id and no appendix,
\* no image, some images, or a failure to read the session directory.
AppendixOutcomes == {"none", "empty", "images", "error"}

AppendixElements(outcome) ==
  CASE outcome = "images" ->
         <<SectionHeading("Image Appendix"), [kind |-> "Image"]>>
    [] outcome = "error" -> <<[kind |-> "AppendixError"]>>
    [] OTHER -> <<>>

\* documentElements of generateDocument.
DocumentElements(d, outcome) ==
  << [kind |-> "Title"], [kind |-> "Header"] >>
    \o (IF Len(d.recommendationsParagraphs) > 0
          THEN <<SectionHeading("Recommendations & Analysis")>>
                 \o d.recommendationsParagraphs
          ELSE <<>>)
    \o (IF Len(d.tableParagraphs) > 0
          THEN <<SectionHeading("Detailed Analysis Table")>>
                 \o d.tableParagraphs
          ELSE <<>>)
    \o AppendixElements(outcome)

\* '|Analysis:|'
MarkerRowLine == <<"|">> \o AnalysisColon \o <<"|">>
\* '1. What'
QuestionLine == <<"1", ".", " ">> \o What

DocLineSet ==
  {HeaderLine, SeparatorLine, RowLine, TextLine, BlankLine, Recommendations}

DocFreeLineSeqs == UNION { [1..n -> DocLineSet] : n \in 0..MaxDocLines }

\* The other marker line, a marker inside a table row and a question of
\* the recommendations, at the start, in a table and in the
\* recommendations, alone or followed by one more line.
DocEdgeLineSeqs ==
  { before \o <<e>> \o after :
      before \in {<<>>, <<HeaderLine>>, <<HeaderLine, RowLine>>,
                   <<Recommendations>>},
      e \in {AnalysisColon, MarkerRowLine, QuestionLine},
      after \in {<<>>, <<RowLine>>, <<TextLine>>} }

\* More lines than one batch holds, in either section.
DocLongLineSeqs ==
  { before \o [k \in 1..(BATCH_SIZE + 1) |-> TextLine] :
      before \in {<<Recommendations>>, <<HeaderLine, RowLine>>} }

DocInputs ==
  { Join(ls, <<"\n">>) :
      ls \in DocFreeLineSeqs \cup DocEdgeLineSeqs \cup DocLongLineSeqs }

NewDoc(content) ==
  [content |-> content, lines |-> Split(content, "\n"), i |-> 1,
   currentSection |-> "null", tableHeaders |-> <<>>, tableRows |-> <<>>,
   inTable |-> FALSE, tableHeaderLine |-> <<>>,
   recommendationsBatch |-> <<>>, tableBatch |-> <<>>,
   recommendationsParagraphs |-> <<>>, tableParagraphs |-> <<>>,
   documentElements |-> <<>>, pc |-> "processContent"]

DocInit ==
  /\ doc \in {NewDoc(c) : c \in DocInputs}
  /\ LoopIdle("doc")
  /\ span = SpanIdle
  /\ sessions = SessionsIdle
  /\ LaterIdle

ProcessContentLine ==
  /\ pc = "doc"
  /\ doc.pc = "processContent"
  /\ doc.i <= Len(doc.lines)
  /\ doc' = [ContentLoopBody(doc, doc.lines[doc.i]) EXCEPT !.i = doc.i + 1]
  /\ UNCHANGED <<loopVars, span, sessions, laterVars>>

ProcessContentReturn ==
  /\ pc = "doc"
  /\ doc.pc = "processContent"
  /\ doc.i > Len(doc.lines)
  /\ doc' = [ContentEnd(doc) EXCEPT !.pc = "generateDocument"]
  /\ UNCHANGED <<loopVars, span, sessions, laterVars>>

GenerateDocument ==
  /\ pc = "doc"
  /\ doc.pc = "generateDocument"
  /\ \E outcome \in AppendixOutcomes :
       doc' = [doc EXCEPT !.documentElements = DocumentElements(doc, outcome),
                          !.pc = "done"]
  /\ UNCHANGED <<loopVars, span, sessions, laterVars>>

DocNext == ProcessContentLine \/ ProcessContentReturn \/ GenerateDocument

SpecDoc == DocInit /\ [][DocNext]_vars

----------------------------------------------------------------------------
(* The progress store of the ocr-progress route with its writer,            *)
(* processMultipleImages (part_006), one invocation per session, and the    *)
(* polling GET handler. Every action is the code that runs from one await   *)
(* (or call, or timer) to the next: nothing else runs in between.           *)

MaxImages == 2
\* A batch large enough for rounding to matter.
ManyImages == 201

ProgressIds == {"s1", "s2"}
\* Keys every object inherits from Object.prototype.
InheritedKeys == {"constructor"}
\* What a poll may name: a session, a key of the prototype, nothing.
PollIds == ProgressIds \cup InheritedKeys \cup {""}

EmptyStore == [id \in {} |-> 0]

setProgress(store, sessionId, completed, total) ==
  [id \in DOMAIN store \cup {sessionId} |->
     IF id = sessionId THEN [completed |-> completed, total |-> total]
                       ELSE store[id]]

clearProgress(store, sessionId) ==
  [id \in DOMAIN store \ {sessionId} |-> store[id]]

\* Math.round((completed / total) * 100); exact for the totals used here.
MathRoundPercent(completed, total) ==
  (200 * completed + total) \div (2 * total)

\* The GET handler. progressStore[sessionId] of a key that is not the
\* store's own finds what the prototype has, an object without completed
\* and total: the response then has neither.
ProgressGET(store, sessionId) ==
  IF sessionId = "" THEN [status |-> 400]
  ELSE IF sessionId \in DOMAIN store
    THEN [status |-> 200, sessionId |-> sessionId,
          progress |-> IF store[sessionId].total > 0
                         THEN MathRoundPercent(store[sessionId].completed,
                                               store[sessionId].total)
                         ELSE 0,
          completed |-> store[sessionId].completed,
          total |-> store[sessionId].total]
  ELSE IF sessionId \in InheritedKeys
    THEN [status |-> 200, sessionId |-> sessionId, progress |-> 0]
  ELSE [status |-> 200, sessionId |-> sessionId, progress |-> 0,
        completed |-> 0, total |-> 0]

NewJob(n) ==
  [n |-> n, i |-> 0, results |-> 0, pc |-> "idle", timer |-> "none"]

\* LoopHead without the timer that clears the entry.
LoopHeadNoTimer(store, sessionId, job) ==
  IF job.i < job.n
    THEN [store |-> setProgress(store, sessionId, job.i, job.n),
          job |-> [job EXCEPT !.pc = "writeFile"]]
    ELSE [store |-> setProgress(store, sessionId, job.n, job.n),
          job |-> [job EXCEPT !.pc = "returned"]]

\* From the loop test to the next await: either iteration i up to its
\* writeFile, or the code after the loop up to the return.
LoopHead(store, sessionId, job) ==
  IF job.i < job.n
    THEN [store |-> setProgress(store, sessionId, job.i, job.n),
          job |-> [job EXCEPT !.pc = "writeFile"]]
    ELSE [store |-> setProgress(store, sessionId, job.n, job.n),
          job |-> [job EXCEPT !.pc = "returned", !.timer = "pending"]]

ProgressInit ==
  /\ progressStore = EmptyStore
  /\ \E many \in 0..MaxImages \cup {ManyImages}, few \in 0..MaxImages :
       jobs = [id \in ProgressIds |->
                 IF id = "s1" THEN NewJob(many) ELSE NewJob(few)]
  /\ poll = NoPoll
  /\ ConvertersIdle("progress")
  /\ UploadIdle
  /\ UiIdle

\* The call of processMultipleImages: the first setProgress and the loop
\* up to the first await.
StartBatch(s) ==
  /\ pc = "progress"
  /\ jobs[s].pc = "idle"
  /\ LET step == LoopHead(setProgress(progressStore, s, 0, jobs[s].n), s,
                          jobs[s])
     IN  /\ progressStore' = step.store
         /\ jobs' = [jobs EXCEPT ![s] = step.job]
  /\ poll' = NoPoll
  /\ UNCHANGED <<converterVars, uploadVars, uiVars>>

\* await writeFile(tempPath, buffer) is over.
WriteFileDone(s) ==
  /\ pc = "progress"
  /\ jobs[s].pc = "writeFile"
  /\ jobs' = [jobs EXCEPT ![s].pc = "recognize"]
  /\ poll' = NoPoll
  /\ UNCHANGED <<progressStore, converterVars, uploadVars, uiVars>>

\* await nodeTesseract.recognize is over: the text is pushed and the loop
\* goes on to the next await or to the return.
RecognizeDone(s) ==
  /\ pc = "progress"
  /\ jobs[s].pc = "recognize"
  /\ LET step == LoopHead(progressStore, s,
                          [jobs[s] EXCEPT !.results = @ + 1, !.i = @ + 1])
     IN  /\ progressStore' = step.store
         /\ jobs' = [jobs EXCEPT ![s] = step.job]
  /\ poll' = NoPoll
  /\ UNCHANGED <<converterVars, uploadVars, uiVars>>

\* writeFile or recognize rejects: the catch block clears the entry and
\* throws.
BatchFails(s) ==
  /\ pc = "progress"
  /\ jobs[s].pc \in {"writeFile", "recognize"}
  /\ progressStore' = clearProgress(progressStore, s)
  /\ jobs' = [jobs EXCEPT ![s].pc = "thrown"]
  /\ poll' = NoPoll
  /\ UNCHANGED <<converterVars, uploadVars, uiVars>>

\* setTimeout(() => clearProgress(sessionId), 60000)
TimerFires(s) ==
  /\ pc = "progress"
  /\ jobs[s].timer = "pending"
  /\ progressStore' = clearProgress(progressStore, s)
  /\ jobs' = [jobs EXCEPT ![s].timer = "fired"]
  /\ poll' = NoPoll
  /\ UNCHANGED <<converterVars, uploadVars, uiVars>>

\* A GET of the ocr-progress route.
Poll(id) ==
  /\ pc = "progress"
  /\ poll' = ProgressGET(progressStore, id)
  /\ UNCHANGED <<progressStore, jobs, converterVars, uploadVars, uiVars>>

BatchStep(s) ==
  \/ StartBatch(s) \/ WriteFileDone(s) \/ RecognizeDone(s)
  \/ BatchFails(s) \/ TimerFires(s)

ProgressNext ==
  \/ \E s \in ProgressIds : BatchStep(s)
  \/ \E id \in PollIds : Poll(id)

SpecProgress == ProgressInit /\ [][ProgressNext]_vars

\* Every await of a started batch settles and every timer fires.
SpecProgressFair ==
  /\ ProgressInit
  /\ [][ProgressNext]_vars
  /\ \A s \in ProgressIds :
       WF_vars(WriteFileDone(s) \/ RecognizeDone(s) \/ BatchFails(s)
                 \/ TimerFires(s))

----------------------------------------------------------------------------
(* uploadImages (src/lib/actions.ts) with the session directory it fills    *)
(* and the download route that reads it. One call of uploadImages and any   *)
(* number of download requests, one at a time, interleaved with it at the   *)
(* awaits.                                                                   *)

MaxFiles == 2

FileNames == {"a.png", "b.png"}

\* n copies of the character c.
Rep(c, n) == [k \in 1..n |-> c]

\* A string of the shape randomUUID() returns, made from two digits.
UUIDOf(c, d) ==
  Rep(c, 8) \o <<"-">> \o Rep(d, 4) \o <<"-">> \o Rep(c, 4) \o <<"-">>
    \o Rep(d, 4) \o <<"-">> \o Rep(c, 12)

RandomUUIDs == {UUIDOf("3", "e"), UUIDOf("a", "0")}

LowerHex ==
  {"0", "1", "2", "3", "4", "5", "6", "7", "8", "9",
   "a", "b", "c", "d", "e", "f"}

\* sessionId.match(/^[0-9a-f]{8}-[0-9a-f]{4}-[0-9a-f]{4}-[0-9a-f]{4}-[0-9a-f]{12}$/)
MatchesUUID(s) ==
  /\ Len(s) = 36
  /\ \A k \in 1..Len(s) :
       IF k \in {9, 14, 19, 24} THEN s[k] = "-" ELSE s[k] \in LowerHex

\* What a download request may name.
RequestIds ==
  RandomUUIDs
    \cup { <<>>,
           UUIDOf("A", "0"),
           UUIDOf("3", "e") \o <<"\n">>,
           SubSeq(UUIDOf("3", "e"), 1, 35),
           <<".", ".", "/", ".", ".", "/", "e", "t", "c">> }

\* The session directory: which images and extracted texts are saved, and
\* how much of each named file is on disk.
EmptyDir ==
  [images |-> {}, extracted |-> {}, combined |-> "absent",
   json |-> "absent", docx |-> "absent", html |-> "absent"]

NoResult == [kind |-> "pending"]
NoDownload ==
  [pc |-> "none", sessionId |-> <<>>, status |-> 0, paths |-> {},
   entries |-> {}]

MarkerToken == "## Image: "
SeparatorToken == "\n\n---\n\n"

OcrText(name) == <<"text of ", name>>
FailedText(name) == <<"Failed to extract text from ", name, ": ", "error">>

\* `## Image: ${result.name}\n\n${result.text}`
SectionOf(result) == <<MarkerToken, result.name, "\n\n">> \o result.text

\* extractedTexts.join("\n\n---\n\n")
RECURSIVE JoinSections(_)
JoinSections(texts) ==
  IF Len(texts) = 0 THEN <<>>
  ELSE IF Len(texts) = 1 THEN texts[1]
  ELSE texts[1] \o <<SeparatorToken>> \o JoinSections(Tail(texts))

\* The results in the order the tasks settled.
InSettleOrder(tasks) ==
  [k \in 1..Len(tasks) |->
     LET t == CHOOSE t \in 1..Len(tasks) : tasks[t].order = k
     IN  [name |-> tasks[t].name, text |-> tasks[t].text]]

\* await Promise.all(processingPromises): the values in the order of the
\* promises.
PromiseAll(tasks) ==
  [k \in 1..Len(tasks) |-> [name |-> tasks[k].name, text |-> tasks[k].text]]

CombineTexts(tasks) ==
  JoinSections([k \in 1..Len(tasks) |-> SectionOf(PromiseAll(tasks)[k])])

\* The IIFE pushed for a saved file, up to its await of performOCR.
NewTask(name) ==
  [name |-> name, pc |-> "ocr", text |-> <<>>, ocrFailed |-> FALSE,
   order |-> 0]

AllDone(tasks) == \A t \in 1..Len(tasks) : tasks[t].pc = "done"

\* The inner catch block.
FailureResult(u) ==
  [kind |-> "value", success |-> FALSE, error |-> "Failed to generate analysis",
   extractedText |-> u.combinedExtractedText, sessionId |-> u.sessionId]

SuccessResult(u) ==
  [kind |-> "value", success |-> TRUE, sessionId |-> u.sessionId,
   analysisResult |-> "analysis", docPath |-> <<u.sessionId, "analysis.docx">>]

\* After generateDocument: the result is returned at once.
AfterGenerateReturns(u, dir) ==
  [upload |-> [u EXCEPT !.pc = "returned", !.result = SuccessResult(u)],
   fs |-> dir]

\* After generateDocument: writeFile(docPath, docBuffer) is called and
\* awaited.
AfterGenerate(u, dir) ==
  [upload |-> [u EXCEPT !.pc = "docx"],
   fs |-> [dir EXCEPT !.docx = "partial"]]

\* What uploadImages and the download route leave alone.
offUpload == <<converterVars, progressVars, uiVars>>

UploadInit ==
  /\ ConvertersIdle("upload")
  /\ ProgressIdle
  /\ UiIdle
  /\ \E names \in UNION {[1..n -> FileNames] : n \in 0..MaxFiles},
        id \in RandomUUIDs :
       upload = [pc |-> "ready", names |-> names, sessionId |-> id,
                 files |-> 0, tasks |-> <<>>, settled |-> 0,
                 combinedExtractedText |-> <<>>, result |-> NoResult]
  /\ fs = EmptyDir
  /\ download = NoDownload

\* The loop test of `for (const [key, value] of formData.entries())`: the
\* next file's save is awaited, or Promise.all is.
AtLoop(u) ==
  [u EXCEPT !.pc = IF u.files < Len(u.names) THEN "saving" ELSE "all"]

\* The call, the two mkdir and the first turn of the loop.
CallUpload ==
  /\ pc = "upload"
  /\ upload.pc = "ready"
  /\ upload' = AtLoop(upload)
  /\ UNCHANGED <<fs, download, offUpload>>

\* await writeFile(filepath, buffer) fulfils: the file is recorded, its OCR
\* task is started, and the loop goes on.
FileSaved ==
  /\ pc = "upload"
  /\ upload.pc = "saving"
  /\ LET k == upload.files + 1
     IN  /\ upload' = AtLoop([upload EXCEPT
                                !.files = k,
                                !.tasks = Append(@, NewTask(upload.names[k]))])
         /\ fs' = [fs EXCEPT !.images = @ \cup {k}]
  /\ UNCHANGED <<download, offUpload>>

\* An await of the outer try block rejects: the outer catch throws.
UploadThrows ==
  /\ pc = "upload"
  /\ upload.pc \in {"saving", "combined"}
  /\ upload' = [upload EXCEPT
                  !.pc = "thrown",
                  !.result = [kind |-> "throw",
                              message |-> "Failed to upload and process images"]]
  /\ UNCHANGED <<fs, download, offUpload>>

\* tesseract.recognize settles for task t: performOCR returns the cleaned
\* text or, from its catch, the failure text; the task goes on to write it.
OcrSettles(t) ==
  /\ pc = "upload"
  /\ upload.pc \in {"saving", "all"}
  /\ t \in 1..Len(upload.tasks)
  /\ upload.tasks[t].pc = "ocr"
  /\ \E ok \in BOOLEAN :
       upload' = [upload EXCEPT
                    !.tasks[t].pc = "writing",
                    !.tasks[t].ocrFailed = ~ok,
                    !.tasks[t].text =
                       IF ok THEN OcrText(upload.tasks[t].name)
                             ELSE FailedText(upload.tasks[t].name)]
  /\ UNCHANGED <<fs, download, offUpload>>

\* The write of the extracted text settles for task t: the task returns
\* the text, or the failure text from its catch.
TextWritten(t) ==
  /\ pc = "upload"
  /\ upload.pc \in {"saving", "all"}
  /\ t \in 1..Len(upload.tasks)
  /\ upload.tasks[t].pc = "writing"
  /\ \E ok \in BOOLEAN :
       /\ upload' = [upload EXCEPT
                       !.tasks[t].pc = "done",
                       !.tasks[t].order = upload.settled + 1,
                       !.settled = @ + 1,
                       !.tasks[t].text =
                          IF ok THEN @ ELSE FailedText(upload.tasks[t].name)]
       /\ fs' = IF ok THEN [fs EXCEPT !.extracted = @ \cup {t}] ELSE fs
  /\ UNCHANGED <<download, offUpload>>

\* Promise.all fulfils; the texts are formatted and joined and the write of
\* the combined text is awaited.
AllSettled ==
  /\ pc = "upload"
  /\ upload.pc = "all"
  /\ AllDone(upload.tasks)
  /\ upload' = [upload EXCEPT
                  !.pc = "combined",
                  !.combinedExtractedText = CombineTexts(upload.tasks)]
  /\ fs' = [fs EXCEPT !.combined = "partial"]
  /\ UNCHANGED <<download, offUpload>>

\* The combined text is written; the language model is called and awaited.
CombinedWritten ==
  /\ pc = "upload"
  /\ upload.pc = "combined"
  /\ upload' = [upload EXCEPT !.pc = "llm"]
  /\ fs' = [fs EXCEPT !.combined = "whole"]
  /\ UNCHANGED <<download, offUpload>>

\* The language model answers, and the write of analysis.json is awaited;
\* or its call rejects.
LlmSettles ==
  /\ pc = "upload"
  /\ upload.pc = "llm"
  /\ \E ok \in BOOLEAN :
       IF ok
       THEN /\ upload' = [upload EXCEPT !.pc = "json"]
            /\ fs' = [fs EXCEPT !.json = "partial"]
       ELSE /\ upload' = [upload EXCEPT !.pc = "returned",
                                        !.result = FailureResult(upload)]
            /\ fs' = fs
  /\ UNCHANGED <<download, offUpload>>

\* analysis.json is written and generateDocument is awaited; or the write
\* rejects.
JsonWritten ==
  /\ pc = "upload"
  /\ upload.pc = "json"
  /\ \E ok \in BOOLEAN :
       IF ok
       THEN /\ upload' = [upload EXCEPT !.pc = "gen"]
            /\ fs' = [fs EXCEPT !.json = "whole"]
       ELSE /\ upload' = [upload EXCEPT !.pc = "returned",
                                        !.result = FailureResult(upload)]
            /\ fs' = fs
  /\ UNCHANGED <<download, offUpload>>

\* generateDocument settles. A generator may have left an
\* embedded_images.html in the directory, whole or not.
DocGenerated ==
  /\ pc = "upload"
  /\ upload.pc = "gen"
  /\ \E ok \in BOOLEAN, html \in {"absent", "partial", "whole"} :
       LET dir == [fs EXCEPT !.html = html]
       IN  IF ok
           THEN /\ upload' = AfterGenerate(upload, dir).upload
                /\ fs' = AfterGenerate(upload, dir).fs
           ELSE /\ upload' = [upload EXCEPT !.pc = "returned",
                                            !.result = FailureResult(upload)]
                /\ fs' = dir
  /\ UNCHANGED <<download, offUpload>>

\* analysis.docx is written and the result returned; or the write rejects.
DocxWritten ==
  /\ pc = "upload"
  /\ upload.pc = "docx"
  /\ \E ok \in BOOLEAN :
       IF ok
       THEN /\ upload' = [upload EXCEPT !.pc = "returned",
                                        !.result = SuccessResult(upload)]
            /\ fs' = [fs EXCEPT !.docx = "whole"]
       ELSE /\ upload' = [upload EXCEPT !.pc = "returned",
                                        !.result = FailureResult(upload)]
            /\ fs' = fs
  /\ UNCHANGED <<download, offUpload>>

\* existsSync(join(process.cwd(), 'uploads', sessionId, name))
ExistsSync(u, dir, sessionId, name) ==
  /\ sessionId = u.sessionId
  /\ dir[name] # "absent"

\* handleDownload checks the document before it validates the id.
HandleDownloadUnvalidated(u, dir, sessionId) ==
  IF ~ExistsSync(u, dir, sessionId, "docx")
  THEN [pc |-> "responded", sessionId |-> sessionId, status |-> 404,
        paths |-> {"docx", "html"}, entries |-> {}]
  ELSE [pc |-> "readDoc", sessionId |-> sessionId, status |-> 0,
        paths |-> {"docx", "html"}, entries |-> {}]

\* handleDownload up to its first await or its return.
HandleDownload(u, dir, sessionId) ==
  IF sessionId = <<>> \/ ~MatchesUUID(sessionId)
  THEN [pc |-> "responded", sessionId |-> sessionId, status |-> 400,
        paths |-> {}, entries |-> {}]
  ELSE IF ~ExistsSync(u, dir, sessionId, "docx")
  THEN [pc |-> "responded", sessionId |-> sessionId, status |-> 404,
        paths |-> {"docx", "html"}, entries |-> {}]
  ELSE [pc |-> "readDoc", sessionId |-> sessionId, status |-> 0,
        paths |-> {"docx", "html"}, entries |-> {}]

\* The catch block of handleDownload.
DownloadError(d) == [d EXCEPT !.pc = "responded", !.status = 500]

\* GET /api/download/<sessionId>
DownloadRequest(sessionId) ==
  /\ pc = "upload"
  /\ download.pc \in {"none", "responded"}
  /\ download' = HandleDownload(upload, fs, sessionId)
  /\ UNCHANGED <<upload, fs, offUpload>>

\* readFile(docPath) settles; the document is added to the zip, and the
\* HTML file is looked for and read, or the zip generated.
DocRead ==
  /\ pc = "upload"
  /\ download.pc = "readDoc"
  /\ \E ok \in BOOLEAN :
       download' =
         IF ~ok THEN DownloadError(download)
         ELSE [download EXCEPT
                 !.entries = @ \cup {"LVMH_Competitor_Analysis.docx"},
                 !.pc = IF ExistsSync(upload, fs, download.sessionId, "html")
                        THEN "readHtml" ELSE "zip"]
  /\ UNCHANGED <<upload, fs, offUpload>>

\* readFile(htmlPath) settles.
HtmlRead ==
  /\ pc = "upload"
  /\ download.pc = "readHtml"
  /\ \E ok \in BOOLEAN :
       download' =
         IF ~ok THEN DownloadError(download)
         ELSE [download EXCEPT !.entries = @ \cup {"Source_Images.html"},
                               !.pc = "zip"]
  /\ UNCHANGED <<upload, fs, offUpload>>

\* zip.generateAsync settles and the zip is sent.
ZipGenerated ==
  /\ pc = "upload"
  /\ download.pc = "zip"
  /\ \E ok \in BOOLEAN :
       download' =
         IF ~ok THEN DownloadError(download)
         ELSE [download EXCEPT !.pc = "responded", !.status = 200]
  /\ UNCHANGED <<upload, fs, offUpload>>

UploadStep ==
  \/ CallUpload
  \/ FileSaved
  \/ UploadThrows
  \/ \E t \in 1..MaxFiles : OcrSettles(t)
  \/ \E t \in 1..MaxFiles : TextWritten(t)
  \/ AllSettled
  \/ CombinedWritten
  \/ LlmSettles
  \/ JsonWritten
  \/ DocGenerated
  \/ DocxWritten

DownloadStep ==
  \/ \E id \in RequestIds : DownloadRequest(id)
  \/ DocRead
  \/ HtmlRead
  \/ ZipGenerated

UploadNext == UploadStep \/ DownloadStep

SpecUpload == UploadInit /\ [][UploadNext]_vars

----------------------------------------------------------------------------
(* The ImageUploader component (part_001): its state hooks, the two          *)
(* interval refs and its handlers. An action is one handler, or the part of  *)
(* handleUpload after its await, run to completion, followed by the render   *)
(* and the effects of the state it leaves (updates made in one handler are   *)
(* rendered together).                                                       *)

MaxSelected == 2
MaxSeconds == 2
MaxUploads == 2

Null == "null"

\* The sessionId the n-th call of uploadImages makes.
SessionOfUpload(n) == <<"session", n>>

UploadResults(n) ==
  { [kind |-> "value", success |-> TRUE, error |-> Null,
     sessionId |-> SessionOfUpload(n)],
    [kind |-> "value", success |-> FALSE,
     error |-> "Failed to generate analysis",
     sessionId |-> SessionOfUpload(n)],
    [kind |-> "throw", success |-> FALSE,
     error |-> "Failed to upload and process images",
     sessionId |-> <<Null>>] }

Mounted ==
  [files |-> 0, isUploading |-> FALSE, uploadSuccess |-> FALSE,
   error |-> Null, sessionId |-> <<Null>>, ocrProgress |-> Null,
   elapsedSeconds |-> 0, timerRef |-> FALSE, progressIntervalRef |-> FALSE,
   call |-> "none", uploads |-> 0, requests |-> 0, opened |-> {},
   handler |-> "mount"]

\* The two effects, run after the render of state u that follows state old.
Effects(old, u) ==
  [u EXCEPT
     !.timerRef = u.isUploading,
     !.elapsedSeconds = IF u.isUploading /\ ~old.isUploading THEN 0 ELSE @,
     !.progressIntervalRef = (u.sessionId # <<Null>> /\ u.isUploading)]

\* The controls the render of state u offers.
Controls(u) ==
  IF u.uploadSuccess THEN {"download", "reset"}
  ELSE {"drop"}
         \cup (IF u.files > 0 THEN {"clearAll", "remove"} ELSE {})
         \cup (IF u.files > 0 /\ ~u.isUploading THEN {"upload"} ELSE {})

onDrop(u, accepted, allImages) ==
  IF ~allImages
  THEN [u EXCEPT !.error = "Only image files are allowed"]
  ELSE [u EXCEPT !.error = Null, !.files = @ + accepted]

removeFile(u) == [u EXCEPT !.files = @ - 1]

clearAll(u) == [u EXCEPT !.files = 0]

\* handleUpload up to its await of uploadImages.
handleUpload(u) ==
  IF u.files = 0
  THEN [u EXCEPT !.error = "Please select at least one image to upload"]
  ELSE [u EXCEPT !.isUploading = TRUE, !.error = Null, !.ocrProgress = Null,
                 !.call = "pending", !.uploads = @ + 1]

\* handleUpload after its await, with its finally block.
uploadSettled(u, result) ==
  LET after ==
        IF result.kind = "throw"
        THEN [u EXCEPT !.error = result.error]
        ELSE IF ~result.success /\ result.error # Null
        THEN [u EXCEPT !.error = result.error]
        ELSE [u EXCEPT !.uploadSuccess = TRUE, !.sessionId = result.sessionId,
                       !.files = 0]
  IN  [after EXCEPT !.isUploading = FALSE, !.ocrProgress = Null,
                    !.call = "none"]

\* resetUpload leaves the sessionId.
resetUploadKeepsSession(u) == [u EXCEPT !.uploadSuccess = FALSE]

resetUpload(u) == [u EXCEPT !.uploadSuccess = FALSE, !.sessionId = <<Null>>]

handleDownload(u) ==
  IF u.sessionId # <<Null>> THEN [u EXCEPT !.opened = @ \cup {u.sessionId}]
  ELSE u

\* One second passes: the callbacks of the intervals that are set. The
\* polling callback is taken with its response.
intervals(u, done) ==
  LET counted == IF u.timerRef THEN [u EXCEPT !.elapsedSeconds = @ + 1] ELSE u
  IN  IF u.progressIntervalRef
      THEN [counted EXCEPT !.requests = @ + 1, !.ocrProgress = "data",
                           !.progressIntervalRef = ~done]
      ELSE counted

\* What the component leaves alone.
offUploader == <<converterVars, progressVars, uploadVars>>

UploaderInit ==
  /\ ConvertersIdle("uploader")
  /\ ProgressIdle
  /\ UploadIdle
  /\ ui = Mounted

\* Files are dropped on the drop zone.
Drop ==
  /\ pc = "uploader"
  /\ "drop" \in Controls(ui)
  /\ \E accepted \in 1..MaxSelected, allImages \in BOOLEAN :
       /\ ui.files + accepted <= MaxSelected
       /\ ui' = Effects(ui, [onDrop(ui, accepted, allImages)
                               EXCEPT !.handler = "onDrop"])
  /\ UNCHANGED offUploader

RemoveFile ==
  /\ pc = "uploader"
  /\ "remove" \in Controls(ui)
  /\ ui' = Effects(ui, [removeFile(ui) EXCEPT !.handler = "removeFile"])
  /\ UNCHANGED offUploader

ClearAll ==
  /\ pc = "uploader"
  /\ "clearAll" \in Controls(ui)
  /\ ui' = Effects(ui, [clearAll(ui) EXCEPT !.handler = "clearAll"])
  /\ UNCHANGED offUploader

\* The upload button is clicked.
ClickUpload ==
  /\ pc = "uploader"
  /\ "upload" \in Controls(ui)
  /\ ui.uploads < MaxUploads
  /\ ui' = Effects(ui, [handleUpload(ui) EXCEPT !.handler = "handleUpload"])
  /\ UNCHANGED offUploader

\* uploadImages settles.
UploadSettles ==
  /\ pc = "uploader"
  /\ ui.call = "pending"
  /\ \E result \in UploadResults(ui.uploads) :
       ui' = Effects(ui, [uploadSettled(ui, result)
                            EXCEPT !.handler = "handleUpload"])
  /\ UNCHANGED offUploader

ClickReset ==
  /\ pc = "uploader"
  /\ "reset" \in Controls(ui)
  /\ ui' = Effects(ui, [resetUpload(ui) EXCEPT !.handler = "resetUpload"])
  /\ UNCHANGED offUploader

ClickDownload ==
  /\ pc = "uploader"
  /\ "download" \in Controls(ui)
  /\ ui' = Effects(ui, [handleDownload(ui) EXCEPT !.handler = "handleDownload"])
  /\ UNCHANGED offUploader

Tick ==
  /\ pc = "uploader"
  /\ ui.timerRef \/ ui.progressIntervalRef
  /\ ui.elapsedSeconds < MaxSeconds
  /\ \E done \in BOOLEAN :
       ui' = Effects(ui, [intervals(ui, done) EXCEPT !.handler = "interval"])
  /\ UNCHANGED offUploader

UploaderNext ==
  \/ Drop
  \/ RemoveFile
  \/ ClearAll
  \/ ClickUpload
  \/ UploadSettles
  \/ ClickReset
  \/ ClickDownload
  \/ Tick

SpecUploader == UploaderInit /\ [][UploaderNext]_vars

----------------------------------------------------------------------------
\* One invocation on its own: the parse state after the first n lines, and
\* the blocks of the whole run.
RECURSIVE RunPrefix(_, _)
RunPrefix(ls, n) ==
  IF n = 0 THEN ParseState(FALSE, <<>>, <<>>, Preamble)
  ELSE LoopBody(RunPrefix(ls, n - 1), ls[n])

Convert(input) ==
  LET ls == Split(input, "\n")
  IN  EndOfInput(RunPrefix(ls, Len(ls))).children

----------------------------------------------------------------------------
\* The place of a section heading among the elements of the document.
SectionAt(title) ==
  CHOOSE k \in 1..Len(doc.documentElements) :
    /\ doc.documentElements[k].kind = "SectionHeading"
    /\ doc.documentElements[k].title = title

DocDone == pc = "doc" /\ doc.pc = "done"

(* C20: when the content has a markdown table and a recommendations part,   *)
(* the document presents the table section ('Detailed Analysis Table')      *)
(* before the recommendations section ('Recommendations & Analysis'), in    *)
(* the order the README lists them.                                         *)
C20_TableSectionFirst ==
  ( /\ DocDone
    /\ \E k \in 1..Len(doc.tableParagraphs) :
         doc.tableParagraphs[k].kind = "Table"
    /\ Len(doc.recommendationsParagraphs) > 0 )
    => SectionAt("Detailed Analysis Table")
         < SectionAt("Recommendations & Analysis")

----------------------------------------------------------------------------
(* C22: createTable shades by row index. In every Table pushed, all cells   *)
(* of the header row have the header shade, all cells of data row r         *)
(* (0-based) have the even shade when r is even and the odd shade when r    *)
(* is odd, and the three shades differ.                                     *)

HeaderShade == "D0E0F5"
EvenShade == "FFFFFF"
OddShade == "F5F5F5"

C22_RowParityShading ==
  /\ Cardinality({HeaderShade, EvenShade, OddShade}) = 3
  /\ \A k \in 1..Len(children) :
        children[k].kind = "Table" =>
          /\ \A c \in 1..Len(children[k].header) :
                children[k].header[c].fill = HeaderShade
          /\ \A r \in 1..Len(children[k].rows) :
                \A c \in 1..Len(children[k].rows[r]) :
                  children[k].rows[r][c].fill =
                    IF (r - 1) % 2 = 0 THEN EvenShade ELSE OddShade

\* A table of three data rows was pushed: even, odd, even.
C22_Witness ==
  /\ pc = "done" /\ Len(Body) = 1 /\ Body[1].kind = "Table"
  /\ Len(Body[1].rows) = 3
  /\ Body[1].rows[1][1].fill = EvenShade
  /\ Body[1].rows[2][1].fill = OddShade
  /\ Body[1].rows[3][1].fill = EvenShade

----------------------------------------------------------------------------
(* Views of one iteration of the loop of processContent.                    *)

AtContentLine ==
  pc = "doc" /\ doc.pc = "processContent" /\ doc.i <= Len(doc.lines)
ContentLine(k) == Trim(doc.lines[k])
IsMarker(line) ==
  Includes(line, Recommendations) \/ Includes(line, AnalysisColon)
\* Neither empty, nor a section marker, nor a table row.
IsRegular(line) == line # <<>> /\ ~IsMarker(line) /\ ~IsRowLine(line)

\* The paragraphs of both output lists, those still waiting in a batch
\* counted in.
NumParagraphs(d) ==
  Len(d.recommendationsParagraphs) + Len(d.recommendationsBatch)
    + Len(SelectSeq(d.tableParagraphs, LAMBDA b : b.kind = "Paragraph"))
    + Len(d.tableBatch)

\* The regular lines among the first n that come after a marker line or a
\* table-row line: those read while currentSection was not null.
RegularInSection(n) ==
  Cardinality({k \in 1..n :
                 /\ IsRegular(ContentLine(k))
                 /\ \E j \in 1..(k - 1) :
                       IsMarker(ContentLine(j)) \/ IsRowLine(ContentLine(j))})

\* What C23 says of the paragraphs: none for a regular line read while
\* currentSection is null, one for every other regular line.
ParagraphsCounted ==
  /\ AtContentLine =>
       /\ (doc.currentSection = "null" /\ IsRegular(ContentLine(doc.i))) =>
            NumParagraphs(doc') = NumParagraphs(doc)
       /\ NumParagraphs(doc') = RegularInSection(doc.i)
  /\ (pc = "doc" /\ doc.i = 1) => doc.currentSection = "null"
  /\ (pc = "doc" /\ doc'.pc = "generateDocument") =>
       /\ doc'.recommendationsBatch = <<>> /\ doc'.tableBatch = <<>>
       /\ NumParagraphs(doc') = RegularInSection(Len(doc.lines))

(* C23, as stated: currentSection starts as null and changes only at a      *)
(* section-marker line or at the first table-row line of the content; a     *)
(* regular line read while it is null gives no paragraph, and the           *)
(* paragraphs emitted are as many as the regular lines read while it was    *)
(* not null.                                                                *)
C23_SectionChangesAtFirstRow ==
  [][ /\ ParagraphsCounted
      /\ (AtContentLine /\ doc'.currentSection # doc.currentSection) =>
           \/ IsMarker(ContentLine(doc.i))
           \/ /\ IsRowLine(ContentLine(doc.i))
              /\ \A j \in 1..(doc.i - 1) : ~IsRowLine(ContentLine(j))
    ]_vars

(* C23, amended: as above, but currentSection changes at a section-marker   *)
(* line or at any table-row line read while no table is open, the first     *)
(* row of every table, not only of the first one.                           *)
C23_SectionChangesAtTableStart ==
  [][ /\ ParagraphsCounted
      /\ (AtContentLine /\ doc'.currentSection # doc.currentSection) =>
           \/ IsMarker(ContentLine(doc.i))
           \/ IsRowLine(ContentLine(doc.i)) /\ ~doc.inTable
    ]_vars

\* A text line read before any section was dropped, the text line after
\* the table was kept.
C23_Witness ==
  /\ pc = "doc" /\ doc.pc = "generateDocument"
  /\ doc.lines = <<TextLine, HeaderLine, RowLine, TextLine>>
  /\ doc.recommendationsParagraphs = <<>>
  /\ Len(doc.tableParagraphs) = 2
  /\ doc.tableParagraphs[1].kind = "Table"
  /\ doc.tableParagraphs[2].kind = "Paragraph"

(* C24: a line that contains 'Recommendations' or 'Analysis:', even one     *)
(* that starts and ends with '|' while a table is open, sets currentSection *)
(* to 'recommendations', gives no block of its own and leaves inTable,      *)
(* tableHeaderLine and tableRows as they are; a data row read after it in   *)
(* an open table is appended to that table's rows.                          *)

\* The output lists with the lines waiting in the batches converted.
Emitted(d) ==
  <<processParagraphBatch(d.recommendationsBatch, d.recommendationsParagraphs),
    processParagraphBatch(d.tableBatch, d.tableParagraphs)>>

C24_MarkerKeepsTableState ==
  [][ /\ (AtContentLine /\ IsMarker(ContentLine(doc.i))) =>
           /\ doc'.currentSection = "recommendations"
           /\ Emitted(doc') = Emitted(doc)
           /\ doc'.inTable = doc.inTable
           /\ doc'.tableHeaderLine = doc.tableHeaderLine
           /\ doc'.tableRows = doc.tableRows
           /\ doc'.tableHeaders = doc.tableHeaders
      /\ ( /\ AtContentLine /\ doc.inTable /\ doc.i > 1
           /\ IsMarker(ContentLine(doc.i - 1))
           /\ doc.lines[doc.i] = RowLine ) =>
           /\ doc'.tableRows = Append(doc.tableRows, CellsOf(RowLine))
           /\ doc'.inTable /\ doc'.tableHeaderLine = doc.tableHeaderLine
    ]_vars

\* '|Analysis:|' was read as a marker in an open table and the row after
\* it went to that table.
C24_Witness ==
  /\ pc = "doc" /\ doc.pc = "processContent"
  /\ doc.lines = <<HeaderLine, MarkerRowLine, RowLine>> /\ doc.i = 4
  /\ doc.inTable /\ doc.tableHeaderLine = HeaderLine
  /\ doc.tableRows = <<CellsOf(RowLine)>>
  /\ doc.currentSection = "recommendations"

----------------------------------------------------------------------------
(* Views of the progress store.                                             *)

HasEntry(id) == id \in DOMAIN progressStore
\* The step is a GET that answered with a body.
Polled == pc = "progress" /\ poll'.status = 200

(* C21: every poll response carries a pair {completed, total} that is an    *)
(* entry of the store or 0/0 when the session has none, with                *)
(* 0 <= completed <= total; progress is an integer in 0..100, and 0 when    *)
(* the entry is missing or total is 0; a step of the batch of one session   *)
(* leaves the entries of the other sessions as they are.                    *)
C21_PollsSeeWholePairs ==
  [][ /\ Polled =>
           /\ {"completed", "total"} \subseteq DOMAIN poll'
           /\ IF HasEntry(poll'.sessionId)
                THEN /\ poll'.completed = progressStore[poll'.sessionId].completed
                     /\ poll'.total = progressStore[poll'.sessionId].total
                ELSE poll'.completed = 0 /\ poll'.total = 0
           /\ 0 <= poll'.completed /\ poll'.completed <= poll'.total
           /\ poll'.progress \in 0..100
           /\ (~HasEntry(poll'.sessionId) \/ poll'.total = 0) =>
                poll'.progress = 0
      /\ pc = "progress" =>
           \A s \in ProgressIds :
             BatchStep(s) =>
               \A t \in ProgressIds \ {s} :
                 /\ (t \in DOMAIN progressStore') = HasEntry(t)
                 /\ HasEntry(t) => progressStore'[t] = progressStore[t]
    ]_vars

(* C29: while a batch of n images runs, the completed counter of its entry  *)
(* never decreases and is the number of recognitions that have finished,    *)
(* total is n, the reported percentage never decreases while the entry      *)
(* exists, and a poll reports 100 only when all n recognitions have         *)
(* finished, and never when n = 0.                                          *)
C29_ProgressFollowsOCR ==
  [][ pc = "progress" =>
        \A s \in ProgressIds :
          /\ s \in DOMAIN progressStore' =>
               /\ progressStore'[s].total = jobs'[s].n
               /\ progressStore'[s].completed = jobs'[s].results
          /\ (HasEntry(s) /\ s \in DOMAIN progressStore') =>
               /\ progressStore'[s].completed >= progressStore[s].completed
               /\ ProgressGET(progressStore', s).progress
                    >= ProgressGET(progressStore, s).progress
          /\ (Polled /\ poll'.sessionId = s /\ poll'.progress = 100) =>
               jobs[s].results = jobs[s].n /\ jobs[s].n > 0
    ]_vars

(* C30: every entry is removed in the end. While an entry exists its batch  *)
(* is running or the timer set after the last setProgress is pending; a     *)
(* failure removes the entry in the same step; once the batch is over and   *)
(* the entry removed it is not created again and a poll for the session     *)
(* reports completed 0, total 0, progress 0.                                *)
BatchOver(s) == jobs[s].pc \in {"returned", "thrown"}

C30_EntriesRemoved ==
  /\ [][ pc = "progress" =>
           \A s \in ProgressIds :
             /\ s \in DOMAIN progressStore' =>
                  \/ jobs'[s].pc \in {"writeFile", "recognize"}
                  \/ jobs'[s].pc = "returned" /\ jobs'[s].timer = "pending"
             /\ BatchFails(s) => s \notin DOMAIN progressStore'
             /\ (BatchOver(s) /\ ~HasEntry(s)) =>
                  /\ s \notin DOMAIN progressStore'
                  /\ (Polled /\ poll'.sessionId = s) =>
                       /\ poll'.completed = 0 /\ poll'.total = 0
                       /\ poll'.progress = 0
       ]_vars
  /\ \A s \in ProgressIds :
       (pc = "progress" /\ HasEntry(s)) ~> (~HasEntry(s) /\ BatchOver(s))

\* A batch returned, its timer fired and the entry is gone, while the
\* other batch failed and its entry is gone too; a poll saw 0/0.
C30_Witness ==
  /\ pc = "progress"
  /\ jobs["s1"].pc = "returned" /\ jobs["s1"].timer = "fired"
  /\ jobs["s1"].n = MaxImages
  /\ jobs["s2"].pc = "thrown"
  /\ DOMAIN progressStore = {}
  /\ poll.status = 200 /\ poll.sessionId = "s1"
  /\ poll.total = 0

----------------------------------------------------------------------------
\* Views of an upload and of a download request.
Combined == pc = "upload" /\ fs.combined # "absent"
MarkerPositions(text) == {p \in DOMAIN text : text[p] = MarkerToken}
\* Where the k-th section of a combined text starts.
SectionStart(text, k) ==
  CHOOSE p \in MarkerPositions(text) :
    Cardinality({q \in MarkerPositions(text) : q <= p}) = k
Succeeded ==
  /\ pc = "upload"
  /\ upload.result.kind = "value"
  /\ upload.result.success
Requested == pc = "upload" /\ download' # download /\ download.pc # "readDoc"
    /\ download.pc # "readHtml" /\ download.pc # "zip"
WellFormed(id) ==
  /\ Len(id) = 36
  /\ \A k \in {9, 14, 19, 24} : id[k] = "-"
  /\ \A k \in (1..36) \ {9, 14, 19, 24} : id[k] \in LowerHex

\* C25: whatever the order in which the OCR tasks settle and whichever of
\* them fail, the combined text has exactly one '## Image: <name>' section
\* per uploaded file, in upload order, and the section of a file whose OCR
\* failed holds 'Failed to extract text from <name>' at that position.
C25_SectionsInUploadOrder ==
  Combined =>
    LET text == upload.combinedExtractedText
        n == Len(upload.names)
    IN  /\ upload.files = n
        /\ Cardinality(MarkerPositions(text)) = n
        /\ Cardinality({p \in DOMAIN text : text[p] = SeparatorToken})
             = IF n = 0 THEN 0 ELSE n - 1
        /\ \A k \in 1..n :
             LET p == SectionStart(text, k)
                 name == upload.names[k]
             IN  /\ text[p + 1] = name
                 /\ SubSeq(text, p + 3, p + 4) \in
                      {OcrText(name), SubSeq(FailedText(name), 1, 2)}
                 /\ upload.tasks[k].ocrFailed =>
                      SubSeq(text, p + 3, p + 4) = SubSeq(FailedText(name), 1, 2)
                 /\ k > 1 => text[p - 1] = SeparatorToken

\* Two different files, the second settled first, the first one's OCR
\* failed and the second one's succeeded.
C25_Witness ==
  /\ Combined
  /\ Len(upload.names) = 2
  /\ upload.names[1] # upload.names[2]
  /\ upload.tasks[1].order = 2
  /\ upload.tasks[1].ocrFailed
  /\ ~upload.tasks[2].ocrFailed
  /\ upload.tasks[2].text = OcrText(upload.names[2])

\* C26: a success result is returned only after analysis.json and then
\* analysis.docx are completely written; a download request for the session
\* of a success result is answered neither 400 nor 404; when the language
\* model call or document generation fails the result is success: false
\* with the extracted text, and the result never changes afterwards.
C26_SuccessAfterFilesWritten ==
  /\ [](Succeeded => (fs.json = "whole" /\ fs.docx = "whole"
                        /\ WellFormed(upload.result.sessionId)))
  /\ [][pc = "upload" =>
          /\ (fs.docx = "absent" /\ fs'.docx # "absent") => fs.json = "whole"
          /\ (Succeeded /\ Requested
                /\ download'.sessionId = upload.result.sessionId) =>
               (download'.pc = "readDoc" /\ download'.status \notin {400, 404})
          /\ (upload.pc \in {"llm", "gen"} /\ upload'.pc = "returned") =>
               /\ upload'.result.kind = "value"
               /\ ~upload'.result.success
               /\ upload'.result.extractedText = upload.combinedExtractedText
          /\ upload.pc = "returned" => upload' = upload]_vars

\* The upload succeeded and a download for its session was sent as a zip.
C26_Witness ==
  /\ Succeeded
  /\ download.pc = "responded"
  /\ download.sessionId = upload.result.sessionId
  /\ download.status = 200

\* C27: an empty or ill-formed sessionId is answered 400 with no path built
\* from it; a well-formed one whose analysis.docx does not exist 404;
\* otherwise the zip sent holds the document, and Source_Images.html exactly
\* when embedded_images.html exists; a failure while reading or zipping is
\* answered 500.
C27_DownloadChecksInOrder ==
  /\ [](pc = "upload" /\ download.pc = "responded" /\ download.status = 200 =>
          /\ "LVMH_Competitor_Analysis.docx" \in download.entries
          /\ "Source_Images.html" \in download.entries <=>
               (download.sessionId = upload.sessionId /\ fs.html # "absent"))
  /\ [][Requested =>
          LET id == download'.sessionId
              found == id = upload.sessionId /\ fs.docx # "absent"
          IN  /\ ~WellFormed(id) =>
                 /\ download'.pc = "responded"
                 /\ download'.status = 400
                 /\ download'.paths = {}
              /\ (WellFormed(id) /\ ~found) =>
                 (download'.pc = "responded" /\ download'.status = 404)
              /\ (WellFormed(id) /\ found) => download'.pc = "readDoc"]_vars
  /\ [][(pc = "upload" /\ ~Requested /\ download' # download) =>
          /\ download'.pc = "responded" => download'.status \in {200, 500}
          /\ download'.pc # "responded" => download'.status = 0]_vars

\* A zip with both files was sent.
C27_Witness ==
  /\ pc = "upload"
  /\ download.pc = "responded"
  /\ download.status = 200
  /\ download.entries = {"LVMH_Competitor_Analysis.docx", "Source_Images.html"}

====
